---- MODULE Spec2Model ----
(***************************************************************************)
(* Session and worker lifecycle of gastown: the polecat session manager    *)
(* (internal/session/manager.go) and the crew commands that share its      *)
(* tmux registry (internal/cmd/crew.go).                                   *)
(*                                                                         *)
(* Rig names, worker names, session keys and paths are sequences of        *)
(* one-character strings, so that formatting a key and stripping a prefix  *)
(* are computed character by character.  Commands, prompts and error       *)
(* texts are plain strings.                                                *)
(*                                                                         *)
(* Every manager operation is a chain of steps, one per external call,     *)
(* run by a process (one command-line invocation).  pc[p] = "done" means   *)
(* process p is between invocations and result[p] holds what the last one  *)
(* returned.                                                               *)
(***************************************************************************)
EXTENDS Integers, Sequences, FiniteSets, TLC

VARIABLES
    reg,      \* tmux registry: live session key -> [env, sent]
    dirs,     \* worker directories on disk: <<area, rig, name>>
    pc,       \* pc[p]: the step process p executes next
    frame,    \* frame[p]: operation and arguments of the current invocation
    calls,    \* calls[p]: external calls made by the current invocation
    result,   \* result[p]: [err, val] returned by the last invocation
    last,     \* last[key]: the last event of that session key: a session created
              \* ("new"), a Start or a Stop that returned success
    wfile,    \* the rig's witness state file: <<>> when absent, else <<document>>
    alive,    \* the process ids that denote a running process
    mail,     \* mail[<<rig, name>>]: messages in that crew worker's mailbox
    bd,       \* the feed's BdActivitySource and the bd process it reads from
    jsonl     \* the feed's JSONLSource and the file it tails

vars ==
    <<reg, dirs, pc, frame, calls, result, last, wfile, alive, mail, bd, jsonl>>

\* what the session and crew operations leave alone
wvars == <<wfile, alive>>

\* the event sources of the activity feed
fvars == <<bd, jsonl>>

----------------------------------------------------------------------------
(* Strings *)

Dash == <<"-">>
Gt == <<"g", "t">>
CrewWord == <<"c", "r", "e", "w">>

RigX == <<"x">>
RigXY == <<"x", "-", "y">>
NameA == <<"a">>
NameCrewA == <<"c", "r", "e", "w", "-", "a">>

Rigs == {RigX, RigXY}
Names == {NameA, NameCrewA}
CrewNames == {NameA}

\* the crew workers a command can name
CrewIds == {<<rig, name>> : rig \in Rigs, name \in CrewNames}

\* strings.HasPrefix
HasPrefix(s, prefix) ==
    /\ Len(s) >= Len(prefix)
    /\ SubSeq(s, 1, Len(prefix)) = prefix

\* strings.TrimPrefix
TrimPrefix(s, prefix) ==
    IF HasPrefix(s, prefix) THEN SubSeq(s, Len(prefix) + 1, Len(s)) ELSE s

\* fmt.Sprintf("gt-%s-%s", m.rig.Name, polecat)
sessionName(rig, polecat) == Gt \o Dash \o rig \o Dash \o polecat

\* fmt.Sprintf("gt-%s-crew-%s", rigName, crewName)
crewSessionName(rigName, crewName) ==
    Gt \o Dash \o rigName \o Dash \o CrewWord \o Dash \o crewName

\* fmt.Sprintf("gt-%s-", m.rig.Name)
listPrefix(rig) == Gt \o Dash \o rig \o Dash

\* filepath.Join(m.rig.Path, "polecats", polecat)
polecatDir(rig, polecat) == <<"polecats", rig, polecat>>

\* the crew worker's clone path under the rig's crew area
crewDir(rig, name) == <<"crew", rig, name>>

\* os.Stat(polecatPath) succeeds and names a directory
hasPolecat(rig, polecat) == polecatDir(rig, polecat) \in dirs

----------------------------------------------------------------------------
(* Errors: nil is the empty chain; fmt.Errorf("ctx: %w", err) puts ctx in   *)
(* front of the chain it wraps.                                            *)

Nil == <<>>
ErrSessionRunning == <<"session already running">>
ErrSessionNotFound == <<"session not found">>
ErrPolecatNotFound == <<"polecat not found">>
TmuxErr == <<"tmux">>

Wrap(ctx, err) == <<ctx>> \o err

\* errors.Is(err, target) for a sentinel target
ErrIs(err, target) ==
    /\ Len(err) >= Len(target)
    /\ SubSeq(err, Len(err) - Len(target) + 1, Len(err)) = target

----------------------------------------------------------------------------
(* Registry primitives (tmux) as functions of the registry state *)

NewSessionRec == [env |-> {}, sent |-> 0]

HasSession(r, key) == key \in DOMAIN r

RegNewSession(r, key) == r @@ (key :> NewSessionRec)

RegKillSession(r, key) == [k \in DOMAIN r \ {key} |-> r[k]]

RegSetEnvironment(r, key, name, value) ==
    IF key \in DOMAIN r
    THEN [r EXCEPT ![key].env = {e \in @ : e[1] # name} \cup {<<name, value>>}]
    ELSE r

RegSendKeys(r, key) == [r EXCEPT ![key].sent = @ + 1]

EnvOf(r, key, name) == {e[2] : e \in {f \in r[key].env : f[1] = name}}

----------------------------------------------------------------------------
(* Processes *)

Procs == {"p1", "p2"}
SeqProcs == {"p1"}

NoFrame ==
    [op |-> "none", rig |-> <<>>, name |-> <<>>, workDir |-> <<>>,
     issue |-> "", command |-> "", force |-> FALSE, lines |-> 0,
     msg |-> 0, noTmux |-> FALSE, sub |-> FALSE,
     live |-> FALSE, prev |-> "none",
     todo |-> <<>>, lastErr |-> <<>>, stops |-> <<>>,
     pid |-> 0, polecats |-> <<>>, loaded |-> <<>>, w |-> <<>>,
     probed |-> "none", found |-> FALSE,
     hasSession |-> FALSE, body |-> "", hadDir |-> FALSE, mailBefore |-> 0]

NoResult == [err |-> Nil, val |-> <<>>]

Keys ==
    {sessionName(rig, name) : rig \in Rigs, name \in Names}
        \cup {crewSessionName(rig, name) : rig \in Rigs, name \in CrewNames}

\* the session key an invocation with arguments f addresses
keyOf(f) ==
    IF f.op \in {"runCrewAt", "runCrewRemove", "runCrewRefresh"}
    THEN crewSessionName(f.rig, f.name)
    ELSE sessionName(f.rig, f.name)

\* the activity source before NewBdActivitySource: stdout is what the bd
\* process writes, scanned the number of lines the reader took, event the
\* event in the reader's hand, events the channel, closes the number of
\* close(events) executed; received, dropped and lateSends record the events
\* the consumer took, those dropped with the number of events the channel
\* held then, and the sends made after a close
NoBdActivitySource ==
    [started |-> "no", stdout |-> <<>>, scanned |-> 0, pc |-> "none",
     event |-> [Raw |-> 0, Type |-> "nil"], events |-> <<>>, closes |-> 0,
     cancelled |-> FALSE, received |-> <<>>, dropped |-> {},
     lateSends |-> 0]

\* the JSONL source before NewJSONLSource: file is the lines of the events
\* file, atOpen the number of lines it held at os.Open, offset the number of
\* lines before the scanner's position, readTo the number of lines before the
\* file's read position, scanErr whether the scanner has stopped, tick
\* whether ticker.C holds a tick; the rest as for the activity source
NoJSONLSource ==
    [opened |-> "no", file |-> <<>>, atOpen |-> 0, offset |-> 0, readTo |-> 0,
     scanErr |-> FALSE, tick |-> FALSE, pc |-> "none",
     event |-> [Raw |-> 0, Type |-> "nil"], events |-> <<>>, closes |-> 0,
     cancelled |-> FALSE, fileClosed |-> FALSE, received |-> <<>>,
     lateSends |-> 0]

Init ==
    /\ reg = << >>
    /\ dirs = {polecatDir(RigX, NameA), polecatDir(RigX, NameCrewA),
               polecatDir(RigXY, NameA), crewDir(RigX, NameA)}
    /\ pc = [p \in Procs |-> "done"]
    /\ frame = [p \in Procs |-> NoFrame]
    /\ calls = [p \in Procs |-> <<>>]
    /\ result = [p \in Procs |-> NoResult]
    /\ last = [k \in Keys |-> "none"]
    /\ wfile = <<>>
    /\ alive = {1, 2}
    /\ mail = [c \in CrewIds |-> 0]
    /\ bd = NoBdActivitySource
    /\ jsonl = NoJSONLSource

\* a new invocation by process p with arguments f; live and prev record what
\* the registry held for its key when it was invoked
Enter(p, f) ==
    /\ pc[p] = "done"
    /\ frame' = [frame EXCEPT ![p] =
                    [f EXCEPT !.live = HasSession(reg, keyOf(f)),
                              !.prev = IF keyOf(f) \in DOMAIN last
                                       THEN last[keyOf(f)] ELSE "none"]]
    /\ calls' = [calls EXCEPT ![p] = <<>>]

\* the invocation with arguments f returns (err, val) to its caller
ReturnOf(p, f, err, val) ==
    /\ pc' = [pc EXCEPT ![p] = "done"]
    /\ result' = [result EXCEPT ![p] = [err |-> err, val |-> val]]
    /\ last' = IF err = Nil /\ f.op \in {"Start", "Stop"}
               THEN [last EXCEPT ![sessionName(f.rig, f.name)] = f.op]
               ELSE last

Return(p, err, val) == ReturnOf(p, frame[p], err, val)

Goto(p, l) ==
    /\ pc' = [pc EXCEPT ![p] = l]
    /\ result' = [result EXCEPT ![p] = NoResult]
    /\ last' = last

\* as Goto, after the session at key was created
GotoCreated(p, l, key) ==
    /\ pc' = [pc EXCEPT ![p] = l]
    /\ result' = [result EXCEPT ![p] = NoResult]
    /\ last' = [last EXCEPT ![key] = "new"]

Log(p, fn, key, ok, arg) ==
    calls' = [calls EXCEPT ![p] =
                 Append(@, [fn |-> fn, key |-> key, ok |-> ok, arg |-> arg])]

\* the session key the current invocation of p works on
sessionID(p) == sessionName(frame[p].rig, frame[p].name)

----------------------------------------------------------------------------
(* Manager.Start *)

OtherDir == <<"elsewhere", <<>>, <<>>>>
StartOptions ==
    {[WorkDir |-> <<>>, Issue |-> "", Command |-> ""],
     [WorkDir |-> OtherDir, Issue |-> "", Command |-> "bash"],
     [WorkDir |-> <<>>, Issue |-> "gt-1", Command |-> ""],
     [WorkDir |-> OtherDir, Issue |-> "gt-1", Command |-> ""]}
DefaultCommand == "claude --dangerously-skip-permissions"

\* opts.WorkDir, or the polecat's clone directory when it is empty
workDirOf(f) == IF f.workDir = <<>> THEN polecatDir(f.rig, f.name) ELSE f.workDir

\* opts.Command, or the default agent invocation when it is empty
commandOf(f) == IF f.command = "" THEN DefaultCommand ELSE f.command

\* fmt.Sprintf("Work on issue: %s", opts.Issue)
issuePrompt(issue) == "Work on issue: " \o issue

\* Start without the clone-directory check
Start_NoDirCheck(p) ==
    \E rig \in Rigs, name \in Names, opts \in StartOptions :
        /\ Enter(p, [NoFrame EXCEPT !.op = "Start", !.rig = rig, !.name = name,
                                    !.workDir = opts.WorkDir,
                                    !.issue = opts.Issue,
                                    !.command = opts.Command])
        /\ Goto(p, "Start_HasSession")
        /\ UNCHANGED <<reg, dirs, wvars, mail, fvars>>

\* entry and the clone-directory check
Start(p) ==
    \E rig \in Rigs, name \in Names, opts \in StartOptions :
        LET f == [NoFrame EXCEPT !.op = "Start", !.rig = rig, !.name = name,
                                 !.workDir = opts.WorkDir, !.issue = opts.Issue,
                                 !.command = opts.Command]
        IN  /\ Enter(p, f)
            /\ IF ~hasPolecat(rig, name)
               THEN ReturnOf(p, f, ErrPolecatNotFound, <<>>)
               ELSE Goto(p, "Start_HasSession")
            /\ UNCHANGED <<reg, dirs, wvars, mail, fvars>>

\* Start_HasSession ignoring what the existence check reports
Start_HasSession_Unchecked(p) ==
    /\ pc[p] = "Start_HasSession"
    /\ \E ok \in BOOLEAN :
        /\ Log(p, "HasSession", sessionID(p), ok, <<>>)
        /\ IF ~ok
           THEN Return(p, Wrap("checking session", TmuxErr), <<>>)
           ELSE Goto(p, "Start_NewSession")
    /\ UNCHANGED <<reg, dirs, frame, wvars, mail, fvars>>

Start_HasSession(p) ==
    /\ pc[p] = "Start_HasSession"
    /\ \E ok \in BOOLEAN :
        /\ Log(p, "HasSession", sessionID(p), ok, <<>>)
        /\ IF ~ok
           THEN Return(p, Wrap("checking session", TmuxErr), <<>>)
           ELSE IF HasSession(reg, sessionID(p))
                THEN Return(p, ErrSessionRunning, <<>>)
                ELSE Goto(p, "Start_NewSession")
    /\ UNCHANGED <<reg, dirs, frame, wvars, mail, fvars>>

\* Start_NewSession going on to the session whether or not it was created
Start_NewSession_IgnoresError(p) ==
    /\ pc[p] = "Start_NewSession"
    /\ \E ok \in BOOLEAN :
        LET created == ok /\ ~HasSession(reg, sessionID(p)) IN
        /\ Log(p, "NewSession", sessionID(p), created, workDirOf(frame[p]))
        /\ IF created
           THEN /\ reg' = RegNewSession(reg, sessionID(p))
                /\ GotoCreated(p, "Start_SetEnvRig", sessionID(p))
           ELSE /\ reg' = reg
                /\ Goto(p, "Start_SetEnvRig")
    /\ UNCHANGED <<dirs, frame, wvars, mail, fvars>>

Start_NewSession(p) ==
    /\ pc[p] = "Start_NewSession"
    /\ \E ok \in BOOLEAN :
        LET created == ok /\ ~HasSession(reg, sessionID(p)) IN
        /\ Log(p, "NewSession", sessionID(p), created, workDirOf(frame[p]))
        /\ IF created
           THEN /\ reg' = RegNewSession(reg, sessionID(p))
                /\ GotoCreated(p, "Start_SetEnvRig", sessionID(p))
           ELSE /\ reg' = reg
                /\ Return(p, Wrap("creating session", TmuxErr), <<>>)
    /\ UNCHANGED <<dirs, frame, wvars, mail, fvars>>

\* Start_SetEnvRig going straight to the launch command
Start_SetEnvRig_ThenSend(p) ==
    /\ pc[p] = "Start_SetEnvRig"
    /\ Log(p, "SetEnvironment", sessionID(p), TRUE, <<"GT_RIG", frame[p].rig>>)
    /\ reg' = RegSetEnvironment(reg, sessionID(p), "GT_RIG", frame[p].rig)
    /\ Goto(p, "Start_SendKeys")
    /\ UNCHANGED <<dirs, frame, wvars, mail, fvars>>

Start_SetEnvRig(p) ==
    /\ pc[p] = "Start_SetEnvRig"
    /\ Log(p, "SetEnvironment", sessionID(p), TRUE, <<"GT_RIG", frame[p].rig>>)
    /\ reg' = RegSetEnvironment(reg, sessionID(p), "GT_RIG", frame[p].rig)
    /\ Goto(p, "Start_SetEnvPolecat")
    /\ UNCHANGED <<dirs, frame, wvars, mail, fvars>>

Start_SetEnvPolecat(p) ==
    /\ pc[p] = "Start_SetEnvPolecat"
    /\ Log(p, "SetEnvironment", sessionID(p), TRUE, <<"GT_POLECAT", frame[p].name>>)
    /\ reg' = RegSetEnvironment(reg, sessionID(p), "GT_POLECAT", frame[p].name)
    /\ Goto(p, "Start_SendKeys")
    /\ UNCHANGED <<dirs, frame, wvars, mail, fvars>>

\* the launch command; then, with an issue, the 500 ms sleep and m.Inject
\* Start_SendKeys killing the session it created when the command is not sent
Start_SendKeys_Rollback(p) ==
    /\ pc[p] = "Start_SendKeys"
    /\ \E ok \in BOOLEAN :
        LET typed == ok /\ HasSession(reg, sessionID(p)) IN
        /\ Log(p, "SendKeys", sessionID(p), typed, commandOf(frame[p]))
        /\ IF ~typed
           THEN /\ reg' = RegKillSession(reg, sessionID(p))
                /\ frame' = frame
                /\ Return(p, Wrap("sending command", TmuxErr), <<>>)
           ELSE /\ reg' = RegSendKeys(reg, sessionID(p))
                /\ IF frame[p].issue # ""
                   THEN /\ frame' = [frame EXCEPT
                                       ![p].msg = Len(issuePrompt(frame[p].issue)),
                                       ![p].sub = TRUE]
                        /\ Goto(p, "Inject_HasSession")
                   ELSE /\ frame' = frame
                        /\ Return(p, Nil, <<>>)
    /\ UNCHANGED <<dirs, wvars, mail, fvars>>

Start_SendKeys(p) ==
    /\ pc[p] = "Start_SendKeys"
    /\ \E ok \in BOOLEAN :
        LET typed == ok /\ HasSession(reg, sessionID(p)) IN
        /\ Log(p, "SendKeys", sessionID(p), typed, commandOf(frame[p]))
        /\ IF ~typed
           THEN /\ reg' = reg
                /\ frame' = frame
                /\ Return(p, Wrap("sending command", TmuxErr), <<>>)
           ELSE /\ reg' = RegSendKeys(reg, sessionID(p))
                /\ IF frame[p].issue # ""
                   THEN /\ frame' = [frame EXCEPT
                                       ![p].msg = Len(issuePrompt(frame[p].issue)),
                                       ![p].sub = TRUE]
                        /\ Goto(p, "Inject_HasSession")
                   ELSE /\ frame' = frame
                        /\ Return(p, Nil, <<>>)
    /\ UNCHANGED <<dirs, wvars, mail, fvars>>

----------------------------------------------------------------------------
(* Manager.Inject *)

BaseDelayMs == 200
PerKBDelayMs == 100
KB == 1024
MaxDelayMs == 1500

\* debounceMs without the cap
debounceMs_NoCap(len) == BaseDelayMs + (len \div KB) * PerKBDelayMs

\* debounceMs falling back to the base delay beyond the cap
debounceMs_ResetAtCap(len) ==
    LET d == BaseDelayMs + (len \div KB) * PerKBDelayMs IN
    IF d > MaxDelayMs THEN BaseDelayMs ELSE d

\* debounceMs := 200 + (len(message)/1024)*100, capped at 1500
debounceMs(len) ==
    LET d == BaseDelayMs + (len \div KB) * PerKBDelayMs IN
    IF d > MaxDelayMs THEN MaxDelayMs ELSE d

\* message lengths: every whole kilobyte up to MaxKB, one byte less than a
\* kilobyte, and a large paste
MaxKB == 14
HugeLen == 100000
MsgLens == {k * KB : k \in 0..MaxKB} \cup {KB - 1, HugeLen}

\* every worker with a short and a huge message, one worker with every length
InjectInputs ==
    {<<rig, name, len>> : rig \in Rigs, name \in Names, len \in {0, HugeLen}}
        \cup {<<RigX, NameA, len>> : len \in MsgLens}

Inject(p) ==
    \E in \in InjectInputs :
        /\ Enter(p, [NoFrame EXCEPT !.op = "Inject", !.rig = in[1],
                                    !.name = in[2], !.msg = in[3]])
        /\ Goto(p, "Inject_HasSession")
        /\ UNCHANGED <<reg, dirs, wvars, mail, fvars>>

\* Inject's error reaching the caller of Start too
InjectReturn_Reported(p, err) == Return(p, err, <<>>)

\* what Inject returns: Start swallows the error of its follow-up
InjectReturn(p, err) ==
    IF frame[p].sub THEN Return(p, Nil, <<>>) ELSE Return(p, err, <<>>)

Inject_HasSession(p) ==
    /\ pc[p] = "Inject_HasSession"
    /\ \E ok \in BOOLEAN :
        /\ Log(p, "HasSession", sessionID(p), ok, <<>>)
        /\ IF ~ok
           THEN InjectReturn(p, Wrap("checking session", TmuxErr))
           ELSE IF ~HasSession(reg, sessionID(p))
                THEN InjectReturn(p, ErrSessionNotFound)
                ELSE Goto(p, "Inject_SendKeysDebounced")
    /\ UNCHANGED <<reg, dirs, frame, wvars, mail, fvars>>

Inject_SendKeysDebounced(p) ==
    /\ pc[p] = "Inject_SendKeysDebounced"
    /\ \E ok \in BOOLEAN :
        LET pasted == ok /\ HasSession(reg, sessionID(p)) IN
        /\ Log(p, "SendKeysDebounced", sessionID(p), pasted,
               <<frame[p].msg, debounceMs(frame[p].msg)>>)
        /\ InjectReturn(p, IF pasted THEN Nil ELSE TmuxErr)
    /\ UNCHANGED <<reg, dirs, frame, wvars, mail, fvars>>

----------------------------------------------------------------------------
(* Two Start calls for one polecat at the same time *)

\* each of two callers starts polecat a of rig x once, with options of its own
concurrentPolecatStart(p) ==
    \E opts \in StartOptions :
        LET f == [NoFrame EXCEPT !.op = "Start", !.rig = RigX, !.name = NameA,
                                 !.workDir = opts.WorkDir, !.issue = opts.Issue,
                                 !.command = opts.Command]
        IN  /\ frame[p].op = "none"
            /\ Enter(p, f)
            /\ IF ~hasPolecat(RigX, NameA)
               THEN ReturnOf(p, f, ErrPolecatNotFound, <<>>)
               ELSE Goto(p, "Start_HasSession")
            /\ UNCHANGED <<reg, dirs, wvars, mail, fvars>>

NextStartConcurrent ==
    \E p \in Procs :
        \/ concurrentPolecatStart(p)
        \/ Start_HasSession(p)
        \/ Start_NewSession(p)
        \/ Start_SetEnvRig(p)
        \/ Start_SetEnvPolecat(p)
        \/ Start_SendKeys(p)
        \/ Inject_HasSession(p)
        \/ Inject_SendKeysDebounced(p)

SpecStartConcurrent == Init /\ [][NextStartConcurrent]_vars

----------------------------------------------------------------------------
(* Manager.Stop, and the loop of Manager.StopAll that calls it *)

Stop(p) ==
    \E rig \in Rigs, name \in Names, force \in BOOLEAN :
        /\ Enter(p, [NoFrame EXCEPT !.op = "Stop", !.rig = rig,
                                    !.name = name, !.force = force])
        /\ Goto(p, "Stop_HasSession")
        /\ UNCHANGED <<reg, dirs, wvars, mail, fvars>>

\* the frame of StopAll after m.Stop(info.Polecat, force) returned err
stopAllFrame(f, err) ==
    [f EXCEPT !.stops = Append(@, [name |-> f.name, err |-> err]),
              !.lastErr = IF err # Nil THEN err ELSE @,
              !.name = IF f.todo = <<>> THEN f.name ELSE Head(f.todo),
              !.todo = IF f.todo = <<>> THEN <<>> ELSE Tail(f.todo)]

\* StopAll's loop giving up at the first Stop that fails
StopAllNext_UntilFailure(p, err) ==
    /\ frame' = [frame EXCEPT ![p] = stopAllFrame(@, err)]
    /\ last' = IF err = Nil THEN [last EXCEPT ![sessionID(p)] = "Stop"] ELSE last
    /\ IF frame[p].todo = <<>> \/ err # Nil
       THEN /\ pc' = [pc EXCEPT ![p] = "done"]
            /\ result' = [result EXCEPT ![p] =
                             [err |-> frame'[p].lastErr, val |-> <<>>]]
       ELSE /\ pc' = [pc EXCEPT ![p] = "Stop_HasSession"]
            /\ result' = [result EXCEPT ![p] = NoResult]

\* StopAll's loop: m.Stop returned err for the current info; remember it when
\* it is an error, go on with the next info, return lastErr after the last
StopAllNext(p, err) ==
    /\ frame' = [frame EXCEPT ![p] = stopAllFrame(@, err)]
    /\ last' = IF err = Nil THEN [last EXCEPT ![sessionID(p)] = "Stop"] ELSE last
    /\ IF frame[p].todo = <<>>
       THEN /\ pc' = [pc EXCEPT ![p] = "done"]
            /\ result' = [result EXCEPT ![p] =
                             [err |-> frame'[p].lastErr, val |-> <<>>]]
       ELSE /\ pc' = [pc EXCEPT ![p] = "Stop_HasSession"]
            /\ result' = [result EXCEPT ![p] = NoResult]

\* what Stop returns, to the command line or to StopAll's loop
StopReturn(p, err) ==
    IF frame[p].op = "StopAll"
    THEN StopAllNext(p, err)
    ELSE Return(p, err, <<>>) /\ frame' = frame

StopGoto(p, l) == Goto(p, l) /\ frame' = frame

\* Stop_HasSession going on to the shutdown when no session is live
Stop_HasSession_Unchecked(p) ==
    /\ pc[p] = "Stop_HasSession"
    /\ \E ok \in BOOLEAN :
        /\ Log(p, "HasSession", sessionID(p), ok, <<>>)
        /\ IF ~ok
           THEN StopReturn(p, Wrap("checking session", TmuxErr))
           ELSE IF ~frame[p].force
                THEN StopGoto(p, "Stop_SendKeysRaw")
                ELSE StopGoto(p, "Stop_KillSession")
    /\ UNCHANGED <<reg, dirs, wvars, mail, fvars>>

Stop_HasSession(p) ==
    /\ pc[p] = "Stop_HasSession"
    /\ \E ok \in BOOLEAN :
        /\ Log(p, "HasSession", sessionID(p), ok, <<>>)
        /\ IF ~ok
           THEN StopReturn(p, Wrap("checking session", TmuxErr))
           ELSE IF ~HasSession(reg, sessionID(p))
                THEN StopReturn(p, ErrSessionNotFound)
                ELSE IF ~frame[p].force
                     THEN StopGoto(p, "Stop_SendKeysRaw")
                     ELSE StopGoto(p, "Stop_KillSession")
    /\ UNCHANGED <<reg, dirs, wvars, mail, fvars>>

\* Stop_SendKeysRaw giving up when the interrupt is not delivered
Stop_SendKeysRaw_Fatal(p) ==
    /\ pc[p] = "Stop_SendKeysRaw"
    /\ \E ok \in BOOLEAN :
        /\ Log(p, "SendKeysRaw", sessionID(p), ok /\ HasSession(reg, sessionID(p)),
               "C-c")
        /\ IF ok /\ HasSession(reg, sessionID(p))
           THEN StopGoto(p, "Stop_KillSession")
           ELSE StopReturn(p, Wrap("sending interrupt", TmuxErr))
    /\ UNCHANGED <<reg, dirs, wvars, mail, fvars>>

\* m.tmux.SendKeysRaw(sessionID, "C-c"), its error dropped; then the 100 ms sleep
Stop_SendKeysRaw(p) ==
    /\ pc[p] = "Stop_SendKeysRaw"
    /\ \E ok \in BOOLEAN :
        /\ Log(p, "SendKeysRaw", sessionID(p), ok /\ HasSession(reg, sessionID(p)),
               "C-c")
    /\ StopGoto(p, "Stop_KillSession")
    /\ UNCHANGED <<reg, dirs, wvars, mail, fvars>>

Stop_KillSession(p) ==
    /\ pc[p] = "Stop_KillSession"
    /\ \E ok \in BOOLEAN :
        LET killed == ok /\ HasSession(reg, sessionID(p)) IN
        /\ Log(p, "KillSession", sessionID(p), killed, <<>>)
        /\ IF killed
           THEN /\ reg' = RegKillSession(reg, sessionID(p))
                /\ StopReturn(p, Nil)
           ELSE /\ reg' = reg
                /\ StopReturn(p, Wrap("killing session", TmuxErr))
    /\ UNCHANGED <<dirs, wvars, mail, fvars>>

----------------------------------------------------------------------------
(* Manager.IsRunning *)

IsRunning(p) ==
    \E rig \in Rigs, name \in Names :
        /\ Enter(p, [NoFrame EXCEPT !.op = "IsRunning", !.rig = rig,
                                    !.name = name])
        /\ Goto(p, "IsRunning_HasSession")
        /\ UNCHANGED <<reg, dirs, wvars, mail, fvars>>

IsRunning_HasSession(p) ==
    /\ pc[p] = "IsRunning_HasSession"
    /\ \E ok \in BOOLEAN :
        /\ Log(p, "HasSession", sessionID(p), ok, <<>>)
        /\ IF ok
           THEN Return(p, Nil, HasSession(reg, sessionID(p)))
           ELSE Return(p, TmuxErr, FALSE)
    /\ UNCHANGED <<reg, dirs, frame, wvars, mail, fvars>>

----------------------------------------------------------------------------
(* Manager.List *)

\* the orders in which the registry may enumerate its live sessions
Orders(S) ==
    {s \in [1..Cardinality(S) -> S] :
        \A i, j \in 1..Cardinality(S) : i # j => s[i] # s[j]}

\* listInfos without the prefix filter
RECURSIVE listInfos_NoFilter(_, _)
listInfos_NoFilter(sessions, rig) ==
    IF sessions = <<>>
    THEN <<>>
    ELSE <<[Polecat |-> TrimPrefix(Head(sessions), listPrefix(rig)),
            SessionID |-> Head(sessions),
            Running |-> TRUE,
            RigName |-> rig]>> \o listInfos_NoFilter(Tail(sessions), rig)

\* listInfos reporting the whole session name as the polecat's name
RECURSIVE listInfos_KeepsPrefix(_, _)
listInfos_KeepsPrefix(sessions, rig) ==
    IF sessions = <<>>
    THEN <<>>
    ELSE LET id == Head(sessions)
             rest == listInfos_KeepsPrefix(Tail(sessions), rig)
         IN  IF ~HasPrefix(id, listPrefix(rig))
             THEN rest
             ELSE <<[Polecat |-> id,
                     SessionID |-> id,
                     Running |-> TRUE,
                     RigName |-> rig]>> \o rest

\* one Info per session carrying the rig's prefix, in enumeration order
RECURSIVE listInfos(_, _)
listInfos(sessions, rig) ==
    IF sessions = <<>>
    THEN <<>>
    ELSE LET id == Head(sessions)
             rest == listInfos(Tail(sessions), rig)
         IN  IF ~HasPrefix(id, listPrefix(rig))
             THEN rest
             ELSE <<[Polecat |-> TrimPrefix(id, listPrefix(rig)),
                     SessionID |-> id,
                     Running |-> TRUE,
                     RigName |-> rig]>> \o rest

List(p) ==
    \E rig \in Rigs :
        /\ Enter(p, [NoFrame EXCEPT !.op = "List", !.rig = rig])
        /\ Goto(p, "List_ListSessions")
        /\ UNCHANGED <<reg, dirs, wvars, mail, fvars>>

List_ListSessions(p) ==
    /\ pc[p] = "List_ListSessions"
    /\ \E ok \in BOOLEAN, sessions \in Orders(DOMAIN reg) :
        /\ Log(p, "ListSessions", <<>>, ok, IF ok THEN sessions ELSE <<>>)
        /\ IF ok
           THEN Return(p, Nil, listInfos(sessions, frame[p].rig))
           ELSE Return(p, TmuxErr, <<>>)
    /\ UNCHANGED <<reg, dirs, frame, wvars, mail, fvars>>

----------------------------------------------------------------------------
(* Manager.StopAll *)

\* the Polecat fields of a list of Info
RECURSIVE polecatsOf(_)
polecatsOf(infos) ==
    IF infos = <<>> THEN <<>>
    ELSE <<Head(infos).Polecat>> \o polecatsOf(Tail(infos))

StopAll(p) ==
    \E rig \in Rigs, force \in BOOLEAN :
        /\ Enter(p, [NoFrame EXCEPT !.op = "StopAll", !.rig = rig,
                                    !.force = force])
        /\ Goto(p, "StopAll_List")
        /\ UNCHANGED <<reg, dirs, wvars, mail, fvars>>

\* infos, err := m.List(), and the first turn of the loop over infos
StopAll_List(p) ==
    /\ pc[p] = "StopAll_List"
    /\ \E ok \in BOOLEAN, sessions \in Orders(DOMAIN reg) :
        LET polecats == polecatsOf(listInfos(sessions, frame[p].rig)) IN
        /\ Log(p, "ListSessions", <<>>, ok, IF ok THEN sessions ELSE <<>>)
        /\ IF ~ok
           THEN Return(p, TmuxErr, <<>>) /\ frame' = frame
           ELSE IF polecats = <<>>
                THEN Return(p, Nil, <<>>) /\ frame' = frame
                ELSE /\ frame' = [frame EXCEPT ![p].name = Head(polecats),
                                               ![p].todo = Tail(polecats)]
                     /\ Goto(p, "Stop_HasSession")
    /\ UNCHANGED <<reg, dirs, wvars, mail, fvars>>

----------------------------------------------------------------------------
(* Manager.Attach *)

Attach(p) ==
    \E rig \in Rigs, name \in Names :
        /\ Enter(p, [NoFrame EXCEPT !.op = "Attach", !.rig = rig, !.name = name])
        /\ Goto(p, "Attach_HasSession")
        /\ UNCHANGED <<reg, dirs, wvars, mail, fvars>>

\* Attach_HasSession attaching whatever the existence check reports
Attach_HasSession_Unchecked(p) ==
    /\ pc[p] = "Attach_HasSession"
    /\ \E ok \in BOOLEAN :
        /\ Log(p, "HasSession", sessionID(p), ok, <<>>)
        /\ IF ~ok
           THEN Return(p, Wrap("checking session", TmuxErr), <<>>)
           ELSE Goto(p, "Attach_AttachSession")
    /\ UNCHANGED <<reg, dirs, frame, wvars, mail, fvars>>

Attach_HasSession(p) ==
    /\ pc[p] = "Attach_HasSession"
    /\ \E ok \in BOOLEAN :
        /\ Log(p, "HasSession", sessionID(p), ok, <<>>)
        /\ IF ~ok
           THEN Return(p, Wrap("checking session", TmuxErr), <<>>)
           ELSE IF ~HasSession(reg, sessionID(p))
                THEN Return(p, ErrSessionNotFound, <<>>)
                ELSE Goto(p, "Attach_AttachSession")
    /\ UNCHANGED <<reg, dirs, frame, wvars, mail, fvars>>

Attach_AttachSession(p) ==
    /\ pc[p] = "Attach_AttachSession"
    /\ \E ok \in BOOLEAN :
        LET attached == ok /\ HasSession(reg, sessionID(p)) IN
        /\ Log(p, "AttachSession", sessionID(p), attached, <<>>)
        /\ Return(p, IF attached THEN Nil ELSE TmuxErr, <<>>)
    /\ UNCHANGED <<reg, dirs, frame, wvars, mail, fvars>>

----------------------------------------------------------------------------
(* Manager.Capture *)

CaptureLines == {10}
Pane == <<"pane">>

Capture(p) ==
    \E rig \in Rigs, name \in Names, lines \in CaptureLines :
        /\ Enter(p, [NoFrame EXCEPT !.op = "Capture", !.rig = rig,
                                    !.name = name, !.lines = lines])
        /\ Goto(p, "Capture_HasSession")
        /\ UNCHANGED <<reg, dirs, wvars, mail, fvars>>

Capture_HasSession(p) ==
    /\ pc[p] = "Capture_HasSession"
    /\ \E ok \in BOOLEAN :
        /\ Log(p, "HasSession", sessionID(p), ok, <<>>)
        /\ IF ~ok
           THEN Return(p, Wrap("checking session", TmuxErr), <<>>)
           ELSE IF ~HasSession(reg, sessionID(p))
                THEN Return(p, ErrSessionNotFound, <<>>)
                ELSE Goto(p, "Capture_CapturePane")
    /\ UNCHANGED <<reg, dirs, frame, wvars, mail, fvars>>

Capture_CapturePane(p) ==
    /\ pc[p] = "Capture_CapturePane"
    /\ \E ok \in BOOLEAN :
        LET captured == ok /\ HasSession(reg, sessionID(p)) IN
        /\ Log(p, "CapturePane", sessionID(p), captured, frame[p].lines)
        /\ IF captured
           THEN Return(p, Nil, Pane)
           ELSE Return(p, TmuxErr, <<>>)
    /\ UNCHANGED <<reg, dirs, frame, wvars, mail, fvars>>

----------------------------------------------------------------------------
(* runCrewAt: "gt crew at <name>" *)

ErrCrewNotFound == <<"crew workspace not found">>

\* crewMgr.Get(name) finds the worker when its directory exists
hasCrew(rig, name) == crewDir(rig, name) \in dirs

crewSessionID(p) == crewSessionName(frame[p].rig, frame[p].name)

\* entry, crewMgr.Get and the --no-tmux shortcut
runCrewAt(p) ==
    \E rig \in Rigs, name \in CrewNames, noTmux \in BOOLEAN :
        LET f == [NoFrame EXCEPT !.op = "runCrewAt", !.rig = rig,
                                 !.name = name, !.noTmux = noTmux]
        IN  /\ Enter(p, f)
            /\ IF ~hasCrew(rig, name)
               THEN ReturnOf(p, f, ErrCrewNotFound, <<>>)
               ELSE IF noTmux
                    THEN ReturnOf(p, f, Nil, crewDir(rig, name))
                    ELSE Goto(p, "runCrewAt_HasSession")
            /\ UNCHANGED <<reg, dirs, wvars, mail, fvars>>

\* runCrewAt_HasSession going on to create a session whatever it found
runCrewAt_HasSession_Recreate(p) ==
    /\ pc[p] = "runCrewAt_HasSession"
    /\ \E ok \in BOOLEAN :
        /\ Log(p, "HasSession", crewSessionID(p), ok, <<>>)
        /\ IF ~ok
           THEN Return(p, Wrap("checking session", TmuxErr), <<>>)
           ELSE Goto(p, "runCrewAt_NewSession")
    /\ UNCHANGED <<reg, dirs, frame, wvars, mail, fvars>>

runCrewAt_HasSession(p) ==
    /\ pc[p] = "runCrewAt_HasSession"
    /\ \E ok \in BOOLEAN :
        /\ Log(p, "HasSession", crewSessionID(p), ok, <<>>)
        /\ IF ~ok
           THEN Return(p, Wrap("checking session", TmuxErr), <<>>)
           ELSE IF ~HasSession(reg, crewSessionID(p))
                THEN Goto(p, "runCrewAt_NewSession")
                ELSE Goto(p, "runCrewAt_AttachSession")
    /\ UNCHANGED <<reg, dirs, frame, wvars, mail, fvars>>

runCrewAt_NewSession(p) ==
    /\ pc[p] = "runCrewAt_NewSession"
    /\ \E ok \in BOOLEAN :
        LET created == ok /\ ~HasSession(reg, crewSessionID(p)) IN
        /\ Log(p, "NewSession", crewSessionID(p), created,
               crewDir(frame[p].rig, frame[p].name))
        /\ IF created
           THEN /\ reg' = RegNewSession(reg, crewSessionID(p))
                /\ GotoCreated(p, "runCrewAt_SetEnvRig", crewSessionID(p))
           ELSE /\ reg' = reg
                /\ Return(p, Wrap("creating session", TmuxErr), <<>>)
    /\ UNCHANGED <<dirs, frame, wvars, mail, fvars>>

runCrewAt_SetEnvRig(p) ==
    /\ pc[p] = "runCrewAt_SetEnvRig"
    /\ Log(p, "SetEnvironment", crewSessionID(p), TRUE, <<"GT_RIG", frame[p].rig>>)
    /\ reg' = RegSetEnvironment(reg, crewSessionID(p), "GT_RIG", frame[p].rig)
    /\ Goto(p, "runCrewAt_SetEnvCrew")
    /\ UNCHANGED <<dirs, frame, wvars, mail, fvars>>

runCrewAt_SetEnvCrew(p) ==
    /\ pc[p] = "runCrewAt_SetEnvCrew"
    /\ Log(p, "SetEnvironment", crewSessionID(p), TRUE, <<"GT_CREW", frame[p].name>>)
    /\ reg' = RegSetEnvironment(reg, crewSessionID(p), "GT_CREW", frame[p].name)
    /\ Goto(p, "runCrewAt_SendKeys")
    /\ UNCHANGED <<dirs, frame, wvars, mail, fvars>>

runCrewAt_SendKeys(p) ==
    /\ pc[p] = "runCrewAt_SendKeys"
    /\ \E ok \in BOOLEAN :
        LET typed == ok /\ HasSession(reg, crewSessionID(p)) IN
        /\ Log(p, "SendKeys", crewSessionID(p), typed, "claude")
        /\ IF typed
           THEN /\ reg' = RegSendKeys(reg, crewSessionID(p))
                /\ Goto(p, "runCrewAt_AttachSession")
           ELSE /\ reg' = reg
                /\ Return(p, Wrap("starting claude", TmuxErr), <<>>)
    /\ UNCHANGED <<dirs, frame, wvars, mail, fvars>>

runCrewAt_AttachSession(p) ==
    /\ pc[p] = "runCrewAt_AttachSession"
    /\ \E ok \in BOOLEAN :
        LET attached == ok /\ HasSession(reg, crewSessionID(p)) IN
        /\ Log(p, "AttachSession", crewSessionID(p), attached, <<>>)
        /\ Return(p, IF attached THEN Nil ELSE TmuxErr, <<>>)
    /\ UNCHANGED <<reg, dirs, frame, wvars, mail, fvars>>

----------------------------------------------------------------------------
(* gt crew remove *)

ErrSessionIsRunning == <<"session is running (use --force to kill and remove)">>
ErrHasChanges == <<"crew workspace has uncommitted changes">>
FsErr == <<"fs">>
MailErr == <<"mail">>

\* as Goto, after the session at key was killed
GotoKilled(p, l, key) ==
    /\ pc' = [pc EXCEPT ![p] = l]
    /\ result' = [result EXCEPT ![p] = NoResult]
    /\ last' = [last EXCEPT ![key] = "killed"]

\* crewMgr.Remove(name, force): the error it returns for a workspace that
\* exists or not, has uncommitted changes or not, can be deleted or not
crewRemoveErr(exists, force, changes, ok) ==
    IF ~exists THEN ErrCrewNotFound
    ELSE IF ~force /\ changes THEN ErrHasChanges
    ELSE IF ~ok THEN Wrap("removing crew workspace", FsErr)
    ELSE Nil

\* entry; without --force the session check comes first
runCrewRemove(p) ==
    \E rig \in Rigs, name \in CrewNames, force \in BOOLEAN :
        /\ Enter(p, [NoFrame EXCEPT !.op = "runCrewRemove", !.rig = rig,
                                    !.name = name, !.force = force,
                                    !.hadDir = hasCrew(rig, name)])
        /\ Goto(p, IF force THEN "runCrewRemove_HasSession"
                            ELSE "runCrewRemove_Guard")
        /\ UNCHANGED <<reg, dirs, wvars, mail, fvars>>

\* hasSession, _ := t.HasSession(sessionID) under !crewForce: a session found
\* ends the command; an error of the check counts as no session
runCrewRemove_Guard(p) ==
    /\ pc[p] = "runCrewRemove_Guard"
    /\ \E ok \in BOOLEAN :
        /\ Log(p, "HasSession", crewSessionID(p), ok, <<>>)
        /\ IF ok /\ HasSession(reg, crewSessionID(p))
           THEN Return(p, ErrSessionIsRunning, <<>>)
           ELSE Goto(p, "runCrewRemove_HasSession")
    /\ UNCHANGED <<reg, dirs, frame, wvars, mail, fvars>>

\* the second check, before the kill; its error counts as no session too
runCrewRemove_HasSession(p) ==
    /\ pc[p] = "runCrewRemove_HasSession"
    /\ \E ok \in BOOLEAN :
        /\ Log(p, "HasSession", crewSessionID(p), ok, <<>>)
        /\ IF ok /\ HasSession(reg, crewSessionID(p))
           THEN Goto(p, "runCrewRemove_KillSession")
           ELSE Goto(p, "runCrewRemove_Remove")
    /\ UNCHANGED <<reg, dirs, frame, wvars, mail, fvars>>

runCrewRemove_KillSession(p) ==
    /\ pc[p] = "runCrewRemove_KillSession"
    /\ \E ok \in BOOLEAN :
        LET killed == ok /\ HasSession(reg, crewSessionID(p)) IN
        /\ Log(p, "KillSession", crewSessionID(p), killed, <<>>)
        /\ IF killed
           THEN /\ reg' = RegKillSession(reg, crewSessionID(p))
                /\ GotoKilled(p, "runCrewRemove_Remove", crewSessionID(p))
           ELSE /\ reg' = reg
                /\ Return(p, Wrap("killing session", TmuxErr), <<>>)
    /\ UNCHANGED <<dirs, frame, wvars, mail, fvars>>

\* crewMgr.Remove(name, crewForce) and the message for each of its errors; the
\* mail directory goes with the workspace
runCrewRemove_Remove(p) ==
    /\ pc[p] = "runCrewRemove_Remove"
    /\ \E changes \in BOOLEAN, ok \in BOOLEAN :
        LET c == <<frame[p].rig, frame[p].name>>
            err == crewRemoveErr(hasCrew(c[1], c[2]), frame[p].force, changes, ok)
        IN  /\ Log(p, "Remove", c, err = Nil, <<frame[p].force, changes>>)
            /\ dirs' = IF err = Nil THEN dirs \ {crewDir(c[1], c[2])} ELSE dirs
            /\ mail' = IF err = Nil THEN [mail EXCEPT ![c] = 0] ELSE mail
            /\ Return(p, err, <<>>)
    /\ UNCHANGED <<reg, frame, wvars, fvars>>

----------------------------------------------------------------------------
(* gt crew remove without --force while gt crew at runs for the same worker *)

concurrentCrewRemove(p) ==
    /\ p = "p1"
    /\ Enter(p, [NoFrame EXCEPT !.op = "runCrewRemove", !.rig = RigX,
                                !.name = NameA, !.force = FALSE,
                                !.hadDir = hasCrew(RigX, NameA)])
    /\ Goto(p, "runCrewRemove_Guard")
    /\ UNCHANGED <<reg, dirs, wvars, mail, fvars>>

concurrentCrewAt(p) ==
    LET f == [NoFrame EXCEPT !.op = "runCrewAt", !.rig = RigX, !.name = NameA]
    IN  /\ p = "p2"
        /\ Enter(p, f)
        /\ IF ~hasCrew(RigX, NameA)
           THEN ReturnOf(p, f, ErrCrewNotFound, <<>>)
           ELSE Goto(p, "runCrewAt_HasSession")
        /\ UNCHANGED <<reg, dirs, wvars, mail, fvars>>

NextCrewConcurrent ==
    \E p \in Procs :
        \/ concurrentCrewRemove(p)
        \/ runCrewRemove_Guard(p)
        \/ runCrewRemove_HasSession(p)
        \/ runCrewRemove_KillSession(p)
        \/ runCrewRemove_Remove(p)
        \/ concurrentCrewAt(p)
        \/ runCrewAt_HasSession(p)
        \/ runCrewAt_NewSession(p)
        \/ runCrewAt_SetEnvRig(p)
        \/ runCrewAt_SetEnvCrew(p)
        \/ runCrewAt_SendKeys(p)
        \/ runCrewAt_AttachSession(p)

SpecCrewConcurrent == Init /\ [][NextCrewConcurrent]_vars

----------------------------------------------------------------------------
(* gt crew refresh *)

MaxMail == 3

\* --message values: none, or a text of the caller
Messages == {"", "note"}

\* the body of the handoff mail
handoffMsg(message) ==
    IF message = ""
    THEN "Context refresh. Check mail and beads for current work state."
    ELSE message

crewId(p) == <<frame[p].rig, frame[p].name>>

\* entry and crewMgr.Get
runCrewRefresh(p) ==
    \E rig \in Rigs, name \in CrewNames, message \in Messages :
        LET f == [NoFrame EXCEPT !.op = "runCrewRefresh", !.rig = rig,
                                 !.name = name, !.body = handoffMsg(message),
                                 !.hadDir = hasCrew(rig, name),
                                 !.mailBefore = mail[<<rig, name>>]]
        IN  /\ mail[<<rig, name>>] < MaxMail
            /\ Enter(p, f)
            /\ IF ~hasCrew(rig, name)
               THEN ReturnOf(p, f, ErrCrewNotFound, <<>>)
               ELSE Goto(p, "runCrewRefresh_HasSession")
            /\ UNCHANGED <<reg, dirs, wvars, mail, fvars>>

\* hasSession, _ := t.HasSession(sessionID): an error counts as no session
runCrewRefresh_HasSession(p) ==
    /\ pc[p] = "runCrewRefresh_HasSession"
    /\ \E ok \in BOOLEAN :
        /\ Log(p, "HasSession", crewSessionID(p), ok, <<>>)
        /\ frame' = [frame EXCEPT ![p].hasSession =
                        ok /\ HasSession(reg, crewSessionID(p))]
    /\ Goto(p, "runCrewRefresh_Append")
    /\ UNCHANGED <<reg, dirs, wvars, mail, fvars>>

\* runCrewRefresh killing the session it found before it sends the mail
runCrewRefresh_Append_KillsFirst(p) ==
    /\ pc[p] = "runCrewRefresh_Append"
    /\ \E outcome \in {"sent", "no mail dir", "not sent"} :
        /\ IF outcome = "no mail dir"
           THEN Log(p, "MkdirAll", crewId(p), FALSE, <<>>)
           ELSE Log(p, "Append", crewId(p), outcome = "sent", frame[p].body)
        /\ reg' = IF frame[p].hasSession /\ HasSession(reg, crewSessionID(p))
                  THEN RegKillSession(reg, crewSessionID(p)) ELSE reg
        /\ IF outcome = "sent"
           THEN /\ mail' = [mail EXCEPT ![crewId(p)] = @ + 1]
                /\ Goto(p, "runCrewRefresh_NewSession")
           ELSE /\ mail' = mail
                /\ Return(p, IF outcome = "no mail dir"
                             THEN Wrap("creating mail dir", FsErr)
                             ELSE Wrap("sending handoff mail", MailErr), <<>>)
    /\ UNCHANGED <<dirs, frame, wvars, fvars>>

\* the mail directory, made when missing, then mailbox.Append(msg)
runCrewRefresh_Append(p) ==
    /\ pc[p] = "runCrewRefresh_Append"
    /\ \E outcome \in {"sent", "no mail dir", "not sent"} :
        /\ IF outcome = "no mail dir"
           THEN Log(p, "MkdirAll", crewId(p), FALSE, <<>>)
           ELSE Log(p, "Append", crewId(p), outcome = "sent", frame[p].body)
        /\ IF outcome = "sent"
           THEN /\ mail' = [mail EXCEPT ![crewId(p)] = @ + 1]
                /\ Goto(p, IF frame[p].hasSession
                           THEN "runCrewRefresh_KillSession"
                           ELSE "runCrewRefresh_NewSession")
           ELSE /\ mail' = mail
                /\ Return(p, IF outcome = "no mail dir"
                             THEN Wrap("creating mail dir", FsErr)
                             ELSE Wrap("sending handoff mail", MailErr), <<>>)
    /\ UNCHANGED <<reg, dirs, frame, wvars, fvars>>

runCrewRefresh_KillSession(p) ==
    /\ pc[p] = "runCrewRefresh_KillSession"
    /\ \E ok \in BOOLEAN :
        LET killed == ok /\ HasSession(reg, crewSessionID(p)) IN
        /\ Log(p, "KillSession", crewSessionID(p), killed, <<>>)
        /\ IF killed
           THEN /\ reg' = RegKillSession(reg, crewSessionID(p))
                /\ GotoKilled(p, "runCrewRefresh_NewSession", crewSessionID(p))
           ELSE /\ reg' = reg
                /\ Return(p, Wrap("killing old session", TmuxErr), <<>>)
    /\ UNCHANGED <<dirs, frame, wvars, mail, fvars>>

\* runCrewRefresh_NewSession trying a second time when the first fails
runCrewRefresh_NewSession_Retry(p) ==
    /\ pc[p] = "runCrewRefresh_NewSession"
    /\ \E first \in BOOLEAN, second \in BOOLEAN :
        LET free == ~HasSession(reg, crewSessionID(p))
            call(ok) == [fn |-> "NewSession", key |-> crewSessionID(p),
                         ok |-> ok /\ free,
                         arg |-> crewDir(frame[p].rig, frame[p].name)]
            created == free /\ (first \/ second)
        IN  /\ calls' = [calls EXCEPT ![p] =
                            IF first /\ free THEN Append(@, call(first))
                            ELSE Append(Append(@, call(first)), call(second))]
            /\ IF created
               THEN /\ reg' = RegNewSession(reg, crewSessionID(p))
                    /\ GotoCreated(p, "runCrewRefresh_SetEnvRig", crewSessionID(p))
               ELSE /\ reg' = reg
                    /\ Return(p, Wrap("creating session", TmuxErr), <<>>)
    /\ UNCHANGED <<dirs, frame, wvars, mail, fvars>>

\* runCrewRefresh_NewSession keeping a session that is already there
runCrewRefresh_NewSession_Reuse(p) ==
    /\ pc[p] = "runCrewRefresh_NewSession"
    /\ \E ok \in BOOLEAN :
        LET created == ok /\ ~HasSession(reg, crewSessionID(p)) IN
        /\ Log(p, "NewSession", crewSessionID(p), created,
               crewDir(frame[p].rig, frame[p].name))
        /\ IF created
           THEN /\ reg' = RegNewSession(reg, crewSessionID(p))
                /\ GotoCreated(p, "runCrewRefresh_SetEnvRig", crewSessionID(p))
           ELSE /\ reg' = reg
                /\ IF ok
                   THEN Goto(p, "runCrewRefresh_SetEnvRig")
                   ELSE Return(p, Wrap("creating session", TmuxErr), <<>>)
    /\ UNCHANGED <<dirs, frame, wvars, mail, fvars>>

runCrewRefresh_NewSession(p) ==
    /\ pc[p] = "runCrewRefresh_NewSession"
    /\ \E ok \in BOOLEAN :
        LET created == ok /\ ~HasSession(reg, crewSessionID(p)) IN
        /\ Log(p, "NewSession", crewSessionID(p), created,
               crewDir(frame[p].rig, frame[p].name))
        /\ IF created
           THEN /\ reg' = RegNewSession(reg, crewSessionID(p))
                /\ GotoCreated(p, "runCrewRefresh_SetEnvRig", crewSessionID(p))
           ELSE /\ reg' = reg
                /\ Return(p, Wrap("creating session", TmuxErr), <<>>)
    /\ UNCHANGED <<dirs, frame, wvars, mail, fvars>>

runCrewRefresh_SetEnvRig(p) ==
    /\ pc[p] = "runCrewRefresh_SetEnvRig"
    /\ Log(p, "SetEnvironment", crewSessionID(p), TRUE, <<"GT_RIG", frame[p].rig>>)
    /\ reg' = RegSetEnvironment(reg, crewSessionID(p), "GT_RIG", frame[p].rig)
    /\ Goto(p, "runCrewRefresh_SetEnvCrew")
    /\ UNCHANGED <<dirs, frame, wvars, mail, fvars>>

runCrewRefresh_SetEnvCrew(p) ==
    /\ pc[p] = "runCrewRefresh_SetEnvCrew"
    /\ Log(p, "SetEnvironment", crewSessionID(p), TRUE, <<"GT_CREW", frame[p].name>>)
    /\ reg' = RegSetEnvironment(reg, crewSessionID(p), "GT_CREW", frame[p].name)
    /\ Goto(p, "runCrewRefresh_SendKeys")
    /\ UNCHANGED <<dirs, frame, wvars, mail, fvars>>

runCrewRefresh_SendKeys(p) ==
    /\ pc[p] = "runCrewRefresh_SendKeys"
    /\ \E ok \in BOOLEAN :
        LET typed == ok /\ HasSession(reg, crewSessionID(p)) IN
        /\ Log(p, "SendKeys", crewSessionID(p), typed, "claude")
        /\ reg' = IF typed THEN RegSendKeys(reg, crewSessionID(p)) ELSE reg
        /\ Return(p, IF typed THEN Nil ELSE Wrap("starting claude", TmuxErr), <<>>)
    /\ UNCHANGED <<dirs, frame, wvars, mail, fvars>>

----------------------------------------------------------------------------
(* Specification of the crew commands, with the polecat Start that can put  *)
(* a session at a crew key; invocations run one at a time                   *)

NextCrew ==
    \E p \in SeqProcs :
        \/ runCrewAt(p)
        \/ runCrewAt_HasSession(p)
        \/ runCrewAt_NewSession(p)
        \/ runCrewAt_SetEnvRig(p)
        \/ runCrewAt_SetEnvCrew(p)
        \/ runCrewAt_SendKeys(p)
        \/ runCrewAt_AttachSession(p)
        \/ runCrewRemove(p)
        \/ runCrewRemove_Guard(p)
        \/ runCrewRemove_HasSession(p)
        \/ runCrewRemove_KillSession(p)
        \/ runCrewRemove_Remove(p)
        \/ runCrewRefresh(p)
        \/ runCrewRefresh_HasSession(p)
        \/ runCrewRefresh_Append(p)
        \/ runCrewRefresh_KillSession(p)
        \/ runCrewRefresh_NewSession(p)
        \/ runCrewRefresh_SetEnvRig(p)
        \/ runCrewRefresh_SetEnvCrew(p)
        \/ runCrewRefresh_SendKeys(p)
        \/ Start(p)
        \/ Start_HasSession(p)
        \/ Start_NewSession(p)
        \/ Start_SetEnvRig(p)
        \/ Start_SetEnvPolecat(p)
        \/ Start_SendKeys(p)
        \/ Inject_HasSession(p)
        \/ Inject_SendKeysDebounced(p)

----------------------------------------------------------------------------
(* Specification: invocations run one at a time, by process p1 *)

Next ==
    \E p \in SeqProcs :
        \/ Start(p)
        \/ Start_HasSession(p)
        \/ Start_NewSession(p)
        \/ Start_SetEnvRig(p)
        \/ Start_SetEnvPolecat(p)
        \/ Start_SendKeys(p)
        \/ Inject(p)
        \/ Inject_HasSession(p)
        \/ Inject_SendKeysDebounced(p)
        \/ Stop(p)
        \/ Stop_HasSession(p)
        \/ Stop_SendKeysRaw(p)
        \/ Stop_KillSession(p)
        \/ IsRunning(p)
        \/ IsRunning_HasSession(p)
        \/ List(p)
        \/ List_ListSessions(p)
        \/ StopAll(p)
        \/ StopAll_List(p)
        \/ Attach(p)
        \/ Attach_HasSession(p)
        \/ Attach_AttachSession(p)
        \/ Capture(p)
        \/ Capture_HasSession(p)
        \/ Capture_CapturePane(p)
        \/ runCrewAt(p)
        \/ runCrewAt_HasSession(p)
        \/ runCrewAt_NewSession(p)
        \/ runCrewAt_SetEnvRig(p)
        \/ runCrewAt_SetEnvCrew(p)
        \/ runCrewAt_SendKeys(p)
        \/ runCrewAt_AttachSession(p)

Spec == Init /\ [][Next]_vars

SpecCrew == Init /\ [][NextCrew]_vars

----------------------------------------------------------------------------
(* Witness manager: the state file of one rig, read and written by          *)
(* invocations that each run in a process of their own                      *)

MaxPid == 3
Pids == 1..MaxPid

StateStopped == "stopped"
StateRunning == "running"

ErrNotRunning == <<"witness not running">>
ErrAlreadyRunning == <<"witness already running">>
ReadErr == <<"read">>
WriteErr == <<"write">>

\* values of *time.Time in the document
NoTime == "null"
Now == "now"

\* what m.rig.Polecats can hold when a manager is built
PolecatLists == {<<>>, <<NameA>>, <<NameA, NameCrewA>>}

\* &Witness{RigName: m.rig.Name, State: StateStopped}
StoppedWitness ==
    [state |-> StateStopped, pid |-> 0, startedAt |-> NoTime, monitored |-> <<>>]

\* loadState taking a missing file for a running witness
loadState_AbsentIsRunning(file) ==
    IF file = <<>> THEN [StoppedWitness EXCEPT !.state = StateRunning]
    ELSE file[1]

\* loadState when the read does not fail: the document, or the stopped
\* witness when there is no file
loadState(file) == IF file = <<>> THEN StoppedWitness ELSE file[1]

\* the error of proc.Signal(sig) on the process found for pid: Signal takes
\* operating-system signals only and answers any other value, nil included,
\* with "unsupported signal type" before it looks at the process
ProcSignal(pid, sig) ==
    IF sig = "nil" THEN <<"os: unsupported signal type">>
    ELSE IF pid \in alive THEN Nil
    ELSE <<"os: process already finished">>

\* util.ProcessExists: os.FindProcess, then proc.Signal(nil) == nil
ProcessExists(pid) == ProcSignal(pid, "nil") = Nil

\* a process with this pid is inside a witness operation
InCall(pid) == \E q \in Procs : pc[q] # "done" /\ frame[q].pid = pid

\* a witness operation invoked in a process of its own, with the Rig it was
\* built with
WitnessEnter(p, op) ==
    \E pid \in alive, polecats \in PolecatLists :
        Enter(p, [NoFrame EXCEPT !.op = op, !.pid = pid, !.polecats = polecats])

witnessStart(p) ==
    /\ WitnessEnter(p, "witness.Start")
    /\ Goto(p, "witnessStart_loadState")
    /\ UNCHANGED <<reg, dirs, wvars, mail, fvars>>

\* the document Start writes, with the monitored names left as loaded
startedOf_KeepMonitored(w, pid, polecats) ==
    [w EXCEPT !.state = StateRunning, !.startedAt = Now, !.pid = pid]

\* the document Start writes: running since now, in the caller's process,
\* monitoring the Rig's polecats
startedOf(w, pid, polecats) ==
    [w EXCEPT !.state = StateRunning, !.startedAt = Now, !.pid = pid,
              !.monitored = polecats]

\* Start asking about the recorded process whatever its pid
asksProbe_AnyPid(w) == w.state = StateRunning

\* Start asks whether the recorded process exists only for a running record
\* with a positive pid
asksProbe(w) == w.state = StateRunning /\ w.pid > 0

\* Start up to the save: load, refuse when the recorded process is found
\* running, else fill in the document to write
witnessStart_loadState(p) ==
    /\ pc[p] = "witnessStart_loadState"
    /\ \E ok \in BOOLEAN :
        LET w == loadState(wfile)
            asks == asksProbe(w)
            probed == IF ~asks THEN "none"
                      ELSE IF w.pid \in alive THEN "live" ELSE "gone"
        IN
        /\ Log(p, "ReadFile", <<>>, ok, <<>>)
        /\ IF ~ok
           THEN Return(p, ReadErr, <<>>) /\ frame' = frame
           ELSE IF asks /\ ProcessExists(w.pid)
                THEN /\ frame' = [frame EXCEPT ![p].loaded = <<w>>,
                                               ![p].found = wfile # <<>>,
                                               ![p].probed = probed]
                     /\ Return(p, ErrAlreadyRunning, <<>>)
                ELSE /\ frame' = [frame EXCEPT
                            ![p].loaded = <<w>>,
                            ![p].found = wfile # <<>>,
                            ![p].probed = probed,
                            ![p].w = <<startedOf(w, frame[p].pid,
                                                 frame[p].polecats)>>]
                     /\ Goto(p, "saveState")
    /\ UNCHANGED <<reg, dirs, wvars, mail, fvars>>

\* util.AtomicWriteJSON(path, doc): write a temporary file, rename it over
\* path; the file holds doc when it succeeds and what it held when it fails
AtomicWriteJSON(file, doc, ok) == IF ok THEN <<doc>> ELSE file

\* saveState writing over the file in place and stopping short of the
\* monitored names
saveState_InPlace(p) ==
    /\ pc[p] = "saveState"
    /\ \E ok \in BOOLEAN :
        /\ Log(p, "AtomicWriteJSON", <<>>, ok, frame[p].w[1])
        /\ wfile' = IF ok
                    THEN <<[frame[p].w[1] EXCEPT
                              !.monitored = loadState(wfile).monitored]>>
                    ELSE wfile
        /\ Return(p, IF ok THEN Nil ELSE WriteErr, <<>>)
    /\ UNCHANGED <<reg, dirs, frame, alive, mail, fvars>>

\* saveState: the directory, then the atomic replace of the file by the
\* document; a failure leaves the file as it was
saveState(p) ==
    /\ pc[p] = "saveState"
    /\ \E ok \in BOOLEAN :
        /\ Log(p, "AtomicWriteJSON", <<>>, ok, frame[p].w[1])
        /\ wfile' = AtomicWriteJSON(wfile, frame[p].w[1], ok)
        /\ Return(p, IF ok THEN Nil ELSE WriteErr, <<>>)
    /\ UNCHANGED <<reg, dirs, frame, alive, mail, fvars>>

witnessStop(p) ==
    /\ WitnessEnter(p, "witness.Stop")
    /\ Goto(p, "witnessStop_loadState")
    /\ UNCHANGED <<reg, dirs, wvars, mail, fvars>>

\* Stop refusing nothing
stopRefused_Never(w) == FALSE

\* Stop refuses a witness that is not running
stopRefused(w) == w.state # StateRunning

\* Stop interrupting the recorded process even when it is the caller
signals_Self(w, pid) == w.pid > 0

\* Stop interrupts the recorded process when it is not the caller
signals(w, pid) == w.pid > 0 /\ w.pid # pid

\* the document Stop writes, with the recorded pid left in
stoppedOf_KeepPid(w) == [w EXCEPT !.state = StateStopped]

\* the document Stop writes, in a state of its own
stoppedOf_Paused(w) == [w EXCEPT !.state = "paused", !.pid = 0]

\* the document Stop writes
stoppedOf(w) == [w EXCEPT !.state = StateStopped, !.pid = 0]

\* Stop writing the document it loaded before it refuses
witnessStop_loadState_SavesFirst(p) ==
    /\ pc[p] = "witnessStop_loadState"
    /\ \E ok \in BOOLEAN :
        LET w == loadState(wfile) IN
        /\ Log(p, "ReadFile", <<>>, ok, <<>>)
        /\ IF ~ok
           THEN Return(p, ReadErr, <<>>) /\ frame' = frame /\ wfile' = wfile
           ELSE IF stopRefused(w)
                THEN /\ frame' = [frame EXCEPT ![p].loaded = <<w>>,
                                               ![p].found = wfile # <<>>]
                     /\ wfile' = <<w>>
                     /\ Return(p, ErrNotRunning, <<>>)
                ELSE /\ frame' = [frame EXCEPT ![p].loaded = <<w>>,
                                               ![p].found = wfile # <<>>,
                                               ![p].w = <<stoppedOf(w)>>]
                     /\ wfile' = wfile
                     /\ IF signals(w, frame[p].pid)
                        THEN Goto(p, "witnessStop_Signal")
                        ELSE Goto(p, "saveState")
    /\ UNCHANGED <<reg, dirs, alive, mail, fvars>>

\* Stop up to the signal: load, refuse unless running, decide on the signal
witnessStop_loadState(p) ==
    /\ pc[p] = "witnessStop_loadState"
    /\ \E ok \in BOOLEAN :
        LET w == loadState(wfile) IN
        /\ Log(p, "ReadFile", <<>>, ok, <<>>)
        /\ IF ~ok
           THEN Return(p, ReadErr, <<>>) /\ frame' = frame
           ELSE IF stopRefused(w)
                THEN /\ frame' = [frame EXCEPT ![p].loaded = <<w>>,
                                               ![p].found = wfile # <<>>]
                     /\ Return(p, ErrNotRunning, <<>>)
                ELSE /\ frame' = [frame EXCEPT ![p].loaded = <<w>>,
                                               ![p].found = wfile # <<>>,
                                               ![p].w = <<stoppedOf(w)>>]
                     /\ IF signals(w, frame[p].pid)
                        THEN Goto(p, "witnessStop_Signal")
                        ELSE Goto(p, "saveState")
    /\ UNCHANGED <<reg, dirs, wvars, mail, fvars>>

\* proc.Signal(os.Interrupt) on the recorded pid, its error dropped; a process
\* that gets the interrupt may exit on it or go on
witnessStop_Signal(p) ==
    /\ pc[p] = "witnessStop_Signal"
    /\ LET pid == frame[p].loaded[1].pid
           delivered == ProcSignal(pid, "interrupt") = Nil
       IN  /\ Log(p, "Signal", pid, delivered, "interrupt")
           /\ \E exits \in BOOLEAN :
                alive' = IF delivered /\ exits /\ ~InCall(pid)
                         THEN alive \ {pid} ELSE alive
    /\ Goto(p, "saveState")
    /\ UNCHANGED <<reg, dirs, frame, wfile, mail, fvars>>

witnessStatus(p) ==
    /\ WitnessEnter(p, "witness.Status")
    /\ Goto(p, "witnessStatus_loadState")
    /\ UNCHANGED <<reg, dirs, wvars, mail, fvars>>

\* Status saving the value it returns
witnessStatus_loadState_Saves(p) ==
    /\ pc[p] = "witnessStatus_loadState"
    /\ \E ok \in BOOLEAN :
        LET w == loadState(wfile) IN
        /\ Log(p, "ReadFile", <<>>, ok, <<>>)
        /\ IF ~ok
           THEN Return(p, ReadErr, <<>>) /\ frame' = frame /\ wfile' = wfile
           ELSE /\ frame' = [frame EXCEPT ![p].loaded = <<w>>,
                                          ![p].found = wfile # <<>>]
                /\ wfile' = <<[w EXCEPT !.monitored = frame[p].polecats]>>
                /\ Return(p, Nil, <<[w EXCEPT !.monitored = frame[p].polecats]>>)
    /\ UNCHANGED <<reg, dirs, alive, mail, fvars>>

\* Status: load, put the Rig's polecats in the value, return it
witnessStatus_loadState(p) ==
    /\ pc[p] = "witnessStatus_loadState"
    /\ \E ok \in BOOLEAN :
        LET w == loadState(wfile) IN
        /\ Log(p, "ReadFile", <<>>, ok, <<>>)
        /\ IF ~ok
           THEN Return(p, ReadErr, <<>>) /\ frame' = frame
           ELSE /\ frame' = [frame EXCEPT ![p].loaded = <<w>>,
                                               ![p].found = wfile # <<>>]
                /\ Return(p, Nil, <<[w EXCEPT !.monitored = frame[p].polecats]>>)
    /\ UNCHANGED <<reg, dirs, wvars, mail, fvars>>

\* a process ends
ProcExit(pid) ==
    /\ pid \in alive
    /\ ~InCall(pid)
    /\ alive' = alive \ {pid}
    /\ UNCHANGED <<reg, dirs, pc, frame, calls, result, last, wfile, mail, fvars>>

\* the operating system gives a free pid to a new process
ProcSpawn(pid) ==
    /\ pid \in Pids \ alive
    /\ alive' = alive \cup {pid}
    /\ UNCHANGED <<reg, dirs, pc, frame, calls, result, last, wfile, mail, fvars>>

NextWitness ==
    \/ \E p \in SeqProcs :
        \/ witnessStart(p)
        \/ witnessStart_loadState(p)
        \/ witnessStop(p)
        \/ witnessStop_loadState(p)
        \/ witnessStop_Signal(p)
        \/ witnessStatus(p)
        \/ witnessStatus_loadState(p)
        \/ saveState(p)
    \/ \E pid \in Pids :
        \/ ProcExit(pid)
        \/ ProcSpawn(pid)

SpecWitness == Init /\ [][NextWitness]_vars

\* the state file as left by something other than these operations: a
\* running record that names no process
MinPid == 0 - 1
NoProcessPids == MinPid..0
ForeignDocs ==
    {[state |-> StateRunning, pid |-> pid, startedAt |-> Now,
      monitored |-> <<>>] : pid \in NoProcessPids}

\* the file is replaced from outside while no operation is in progress
FileReplaced(doc) ==
    /\ \A q \in Procs : pc[q] = "done"
    /\ wfile # <<doc>>
    /\ wfile' = <<doc>>
    /\ UNCHANGED <<reg, dirs, pc, frame, calls, result, last, alive, mail, fvars>>

NextWitnessFile ==
    \/ NextWitness
    \/ \E doc \in ForeignDocs : FileReplaced(doc)

SpecWitnessFile == Init /\ [][NextWitnessFile]_vars

\* two command-line processes at work on the same rig at once: each has a
\* pid of its own and the Rig it loaded
OwnPid(p) == IF p = "p1" THEN 1 ELSE 2
OwnPolecats(p) == IF p = "p1" THEN <<NameA>> ELSE <<NameA, NameCrewA>>

ConcurrentEnter(p, op) ==
    /\ OwnPid(p) \in alive
    /\ Enter(p, [NoFrame EXCEPT !.op = op, !.pid = OwnPid(p),
                                !.polecats = OwnPolecats(p)])

concurrentStart(p) ==
    /\ ConcurrentEnter(p, "witness.Start")
    /\ Goto(p, "witnessStart_loadState")
    /\ UNCHANGED <<reg, dirs, wvars, mail, fvars>>

concurrentStop(p) ==
    /\ ConcurrentEnter(p, "witness.Stop")
    /\ Goto(p, "witnessStop_loadState")
    /\ UNCHANGED <<reg, dirs, wvars, mail, fvars>>

concurrentStatus(p) ==
    /\ ConcurrentEnter(p, "witness.Status")
    /\ Goto(p, "witnessStatus_loadState")
    /\ UNCHANGED <<reg, dirs, wvars, mail, fvars>>

\* the witness operations of two processes interleaved step by step: no lock
\* keeps one invocation's load and save together
NextWitnessConcurrent ==
    \E p \in Procs :
        \/ concurrentStart(p)
        \/ witnessStart_loadState(p)
        \/ concurrentStop(p)
        \/ witnessStop_loadState(p)
        \/ witnessStop_Signal(p)
        \/ concurrentStatus(p)
        \/ witnessStatus_loadState(p)
        \/ saveState(p)

SpecWitnessConcurrent == Init /\ [][NextWitnessConcurrent]_vars

----------------------------------------------------------------------------
(* Specification of all the operations: the commands of one subsystem run   *)
(* while the state of the others is as Init left it, since the session      *)
(* manager, the crew commands and the witness manager share no state but    *)
(* the registry                                                             *)

WitnessIdle == wfile = <<>> /\ alive = {1, 2}

CrewIdle ==
    /\ crewDir(RigX, NameA) \in dirs
    /\ \A c \in CrewIds : mail[c] = 0
    /\ \A k \in Keys : last[k] # "killed"

PolecatIdle == \A k \in Keys : last[k] # "Stop"

SessionsIdle == reg = << >> /\ CrewIdle /\ \A k \in Keys : last[k] = "none"

NextAll ==
    \/ WitnessIdle /\ CrewIdle /\ Next
    \/ WitnessIdle /\ PolecatIdle /\ NextCrew
    \/ SessionsIdle /\ NextWitness

SpecAll == Init /\ [][NextAll]_vars

----------------------------------------------------------------------------
(* The activity feed: BdActivitySource *)

\* make(chan Event, 100)
EventsCap == 100

\* the lines the bd process writes before its output ends
MaxLines == 102

\* parseSimpleLine and parseBdActivityLine returning nil
NoEvent == [Raw |-> 0, Type |-> "nil"]

\* the outputs of the bd process: line n is blank, or an activity line (it
\* matches bdActivityPattern), or some other text
BlankLines == {{}, {2}, {1, 2, 3}}
bdOutput(blanks) ==
    [n \in 1..MaxLines |->
        [n |-> n,
         text |-> IF n \in blanks THEN "blank"
                  ELSE IF n % 2 = 1 THEN "activity" ELSE "other"]]

\* parseSimpleLine: nil for a blank line, else an update carrying the line
parseSimpleLine(line) ==
    IF line.text = "blank" THEN NoEvent
    ELSE [Raw |-> line.n, Type |-> "update"]

\* parseBdActivityLine: the event of a line matching the activity pattern,
\* else what parseSimpleLine makes of it
parseBdActivityLine(line) ==
    IF line.text # "activity" THEN parseSimpleLine(line)
    ELSE [Raw |-> line.n, Type |-> "create"]

\* NewBdActivitySource: the command is started and the reader goroutine with
\* it, or starting fails and there is no source
NewBdActivitySource ==
    /\ bd.started = "no"
    /\ \E ok \in BOOLEAN, blanks \in BlankLines :
        bd' = IF ~ok THEN [bd EXCEPT !.started = "failed"]
              ELSE [bd EXCEPT !.started = "yes", !.stdout = bdOutput(blanks),
                              !.pc = "Scan"]
    /\ UNCHANGED <<reg, dirs, pc, frame, calls, result, last, wvars, mail, jsonl>>

\* for scanner.Scan(): the next line and its event, or the end of the loop
\* when the output has ended; after cancel the pipe may end at any line
bdReader_Scan ==
    /\ bd.pc = "Scan"
    /\ \E cut \in IF bd.cancelled THEN BOOLEAN ELSE {FALSE} :
        IF cut \/ bd.scanned = Len(bd.stdout)
        THEN bd' = [bd EXCEPT !.pc = "close"]
        ELSE LET event == parseBdActivityLine(bd.stdout[bd.scanned + 1]) IN
             IF event = NoEvent
             THEN bd' = [bd EXCEPT !.scanned = @ + 1]
             ELSE bd' = [bd EXCEPT !.scanned = @ + 1, !.event = event,
                                   !.pc = "offer"]
    /\ UNCHANGED <<reg, dirs, pc, frame, calls, result, last, wvars, mail, jsonl>>

\* the reader sending with a plain channel send, which waits for room
bdReader_Offer_Blocking ==
    /\ bd.pc = "offer"
    /\ Len(bd.events) < EventsCap
    /\ bd' = [bd EXCEPT !.events = Append(@, bd.event),
                        !.lateSends = @ + (IF bd.closes > 0 THEN 1 ELSE 0),
                        !.pc = "Scan"]
    /\ UNCHANGED <<reg, dirs, pc, frame, calls, result, last, wvars, mail, jsonl>>

\* select { case source.events <- *event: default: }: the event goes into the
\* channel when it has room and is dropped otherwise
bdReader_Offer ==
    /\ bd.pc = "offer"
    /\ bd' = IF Len(bd.events) < EventsCap
             THEN [bd EXCEPT !.events = Append(@, bd.event),
                             !.lateSends = @ + (IF bd.closes > 0 THEN 1 ELSE 0),
                             !.pc = "Scan"]
             ELSE [bd EXCEPT !.dropped = @ \cup {[event |-> bd.event,
                                                  held |-> Len(bd.events)]},
                             !.pc = "Scan"]
    /\ UNCHANGED <<reg, dirs, pc, frame, calls, result, last, wvars, mail, jsonl>>

\* close(source.events), the last statement of the reader goroutine
bdReader_Close ==
    /\ bd.pc = "close"
    /\ bd' = [bd EXCEPT !.closes = @ + 1, !.pc = "returned"]
    /\ UNCHANGED <<reg, dirs, pc, frame, calls, result, last, wvars, mail, jsonl>>

\* BdActivitySource.Close: s.cancel() ends the command; s.cmd.Wait() follows
bdClose ==
    /\ bd.started = "yes"
    /\ ~bd.cancelled
    /\ bd' = [bd EXCEPT !.cancelled = TRUE]
    /\ UNCHANGED <<reg, dirs, pc, frame, calls, result, last, wvars, mail, jsonl>>

\* the consumer takes the next event from Events()
bdReceive ==
    /\ bd.events # <<>>
    /\ bd' = [bd EXCEPT !.events = Tail(@),
                        !.received = Append(@, Head(bd.events))]
    /\ UNCHANGED <<reg, dirs, pc, frame, calls, result, last, wvars, mail, jsonl>>

NextBdActivity ==
    \/ NewBdActivitySource
    \/ bdReader_Scan
    \/ bdReader_Offer
    \/ bdReader_Close
    \/ bdClose
    \/ bdReceive

SpecBdActivity == Init /\ [][NextBdActivity]_vars

----------------------------------------------------------------------------
(* The activity feed: JSONLSource *)

\* the lines the events file comes to hold
MaxFile == 3

\* what a line of the file holds: an event object, or text that is blank or
\* does not unmarshal
LineTexts == {"json", "garbage"}

\* parseJSONLLine: nil for a blank line and for text that does not unmarshal,
\* else the event the object describes, carrying the line
parseJSONLLine(line) ==
    IF line.text # "json" THEN NoEvent
    ELSE [Raw |-> line.n, Type |-> "event"]

\* some process appends a line to the events file
jsonlAppend(text) ==
    /\ Len(jsonl.file) < MaxFile
    /\ jsonl' = [jsonl EXCEPT
                    !.file = Append(@, [n |-> Len(jsonl.file) + 1, text |-> text])]
    /\ UNCHANGED <<reg, dirs, pc, frame, calls, result, last, wvars, mail, bd>>

\* NewJSONLSource: os.Open, the channel, go source.tail(ctx); no source and
\* no goroutine when the file cannot be opened
NewJSONLSource ==
    /\ jsonl.opened = "no"
    /\ \E ok \in BOOLEAN :
        jsonl' = IF ~ok THEN [jsonl EXCEPT !.opened = "failed"]
                 ELSE [jsonl EXCEPT !.opened = "yes", !.pc = "Seek",
                                    !.atOpen = Len(jsonl.file)]
    /\ UNCHANGED <<reg, dirs, pc, frame, calls, result, last, wvars, mail, bd>>

\* tail reading the file from its beginning
jsonlTail_Seek_Start ==
    /\ jsonl.pc = "Seek"
    /\ jsonl' = [jsonl EXCEPT !.offset = 0, !.readTo = 0, !.pc = "select"]
    /\ UNCHANGED <<reg, dirs, pc, frame, calls, result, last, wvars, mail, bd>>

\* s.file.Seek(0, 2): the read position goes to the end the file has now
jsonlTail_Seek ==
    /\ jsonl.pc = "Seek"
    /\ jsonl' = [jsonl EXCEPT !.offset = Len(jsonl.file),
                              !.readTo = Len(jsonl.file), !.pc = "select"]
    /\ UNCHANGED <<reg, dirs, pc, frame, calls, result, last, wvars, mail, bd>>

\* the 100 ms ticker puts a tick in its one-slot channel
jsonlTicker ==
    /\ jsonl.pc \in {"select", "Scan", "offer"}
    /\ ~jsonl.tick
    /\ jsonl' = [jsonl EXCEPT !.tick = TRUE]
    /\ UNCHANGED <<reg, dirs, pc, frame, calls, result, last, wvars, mail, bd>>

\* select, case <-ticker.C: a pass over what the scanner can read
jsonlTail_Tick ==
    /\ jsonl.pc = "select"
    /\ jsonl.tick
    /\ jsonl' = [jsonl EXCEPT !.tick = FALSE, !.pc = "Scan"]
    /\ UNCHANGED <<reg, dirs, pc, frame, calls, result, last, wvars, mail, bd>>

\* select, case <-ctx.Done(): return, and with it the deferred ticker.Stop()
\* and close(s.events)
jsonlTail_Done ==
    /\ jsonl.pc = "select"
    /\ jsonl.cancelled
    /\ jsonl' = [jsonl EXCEPT !.closes = @ + 1, !.pc = "returned"]
    /\ UNCHANGED <<reg, dirs, pc, frame, calls, result, last, wvars, mail, bd>>

\* scanner.Scan(): false for good once the scanner met the end of the file or
\* a read error; else the next line and its event, from the scanner's buffer
\* or, when that is used up, from a read of what the file holds by now; a
\* closed file fails the read
jsonlTail_Scan ==
    /\ jsonl.pc = "Scan"
    /\ IF jsonl.scanErr
       THEN jsonl' = [jsonl EXCEPT !.pc = "select"]
       ELSE IF /\ jsonl.offset = jsonl.readTo
               /\ jsonl.fileClosed \/ jsonl.offset = Len(jsonl.file)
            THEN jsonl' = [jsonl EXCEPT !.scanErr = TRUE, !.pc = "select"]
            ELSE LET event == parseJSONLLine(jsonl.file[jsonl.offset + 1])
                     readTo == IF jsonl.offset = jsonl.readTo
                               THEN Len(jsonl.file) ELSE jsonl.readTo
                 IN  IF event = NoEvent
                     THEN jsonl' = [jsonl EXCEPT !.offset = @ + 1,
                                                 !.readTo = readTo]
                     ELSE jsonl' = [jsonl EXCEPT !.offset = @ + 1,
                                                 !.readTo = readTo,
                                                 !.event = event,
                                                 !.pc = "offer"]
    /\ UNCHANGED <<reg, dirs, pc, frame, calls, result, last, wvars, mail, bd>>

\* select { case s.events <- *event: default: }
jsonlTail_Offer ==
    /\ jsonl.pc = "offer"
    /\ jsonl' = IF Len(jsonl.events) < EventsCap
                THEN [jsonl EXCEPT
                        !.events = Append(@, jsonl.event),
                        !.lateSends = @ + (IF jsonl.closes > 0 THEN 1 ELSE 0),
                        !.pc = "Scan"]
                ELSE [jsonl EXCEPT !.pc = "Scan"]
    /\ UNCHANGED <<reg, dirs, pc, frame, calls, result, last, wvars, mail, bd>>

\* JSONLSource.Close, first statement: s.cancel()
jsonlClose ==
    /\ jsonl.opened = "yes"
    /\ ~jsonl.cancelled
    /\ jsonl' = [jsonl EXCEPT !.cancelled = TRUE]
    /\ UNCHANGED <<reg, dirs, pc, frame, calls, result, last, wvars, mail, bd>>

\* JSONLSource.Close, second statement: s.file.Close()
jsonlClose_File ==
    /\ jsonl.cancelled
    /\ ~jsonl.fileClosed
    /\ jsonl' = [jsonl EXCEPT !.fileClosed = TRUE]
    /\ UNCHANGED <<reg, dirs, pc, frame, calls, result, last, wvars, mail, bd>>

\* the consumer takes the next event from Events()
jsonlReceive ==
    /\ jsonl.events # <<>>
    /\ jsonl' = [jsonl EXCEPT !.events = Tail(@),
                              !.received = Append(@, Head(jsonl.events))]
    /\ UNCHANGED <<reg, dirs, pc, frame, calls, result, last, wvars, mail, bd>>

NextJSONL ==
    \/ \E text \in LineTexts : jsonlAppend(text)
    \/ NewJSONLSource
    \/ jsonlTail_Seek
    \/ jsonlTicker
    \/ jsonlTail_Tick
    \/ jsonlTail_Done
    \/ jsonlTail_Scan
    \/ jsonlTail_Offer
    \/ jsonlClose
    \/ jsonlClose_File
    \/ jsonlReceive

SpecJSONL == Init /\ [][NextJSONL]_vars

\* the tail goroutine is scheduled as long as it can take a step, and a
\* select that finds ctx.Done() ready again and again takes that case in the
\* end: the runtime picks among the ready cases at random
SpecJSONLFair ==
    /\ SpecJSONL
    /\ WF_vars(jsonlTail_Seek)
    /\ WF_vars(jsonlTail_Scan)
    /\ WF_vars(jsonlTail_Offer)
    /\ SF_vars(jsonlTail_Done)

----------------------------------------------------------------------------
(* Properties *)

Done(p, op) == pc[p] = "done" /\ frame[p].op = op

\* the names of the external calls process p made, in order
Fns(p) == [i \in 1..Len(calls[p]) |-> calls[p][i].fn]

\* how many times process p called the primitive fn
Count(p, fn) == Cardinality({i \in 1..Len(calls[p]) : calls[p][i].fn = fn})

AllOk(p) == \A i \in 1..Len(calls[p]) : calls[p][i].ok

Min(a, b) == IF a <= b THEN a ELSE b

\* C1: a Start on an existing polecat with no live session, whose registry
\* calls all succeed, returns nil and leaves the session live; from a Start
\* that returned nil until the next successful Stop, IsRunning answers true
\* and another Start fails with ErrSessionRunning without creating a session.
StartThenRunning ==
    \A p \in SeqProcs :
        /\ ( /\ Done(p, "Start")
             /\ hasPolecat(frame[p].rig, frame[p].name)
             /\ ~frame[p].live
             /\ AllOk(p) )
           => /\ result[p].err = Nil
              /\ HasSession(reg, sessionID(p))
        /\ (Done(p, "IsRunning") /\ result[p].err = Nil /\ frame[p].prev = "Start")
           => result[p].val = TRUE
        /\ (Done(p, "Start") /\ frame[p].prev = "Start")
           => /\ Count(p, "NewSession") = 0
              /\ IF calls[p][1].ok
                 THEN result[p].err = ErrSessionRunning
                 ELSE result[p].err = Wrap("checking session", TmuxErr)

SecondStartRejected ==
    /\ Done("p1", "Start")
    /\ frame["p1"].prev = "Start"
    /\ result["p1"].err = ErrSessionRunning
    /\ HasSession(reg, sessionID("p1"))

\* C2: a Stop that finds no live session fails with ErrSessionNotFound and
\* sends neither the interrupt nor the kill; after a Stop that returned nil
\* the session is gone, and IsRunning answers false until a session is
\* created at the key again.
StopThenNotRunning ==
    \A p \in SeqProcs :
        /\ (Done(p, "Stop") /\ ~frame[p].live)
           => /\ Count(p, "SendKeysRaw") = 0
              /\ Count(p, "KillSession") = 0
              /\ IF calls[p][1].ok
                 THEN result[p].err = ErrSessionNotFound
                 ELSE result[p].err = Wrap("checking session", TmuxErr)
        /\ (Done(p, "Stop") /\ result[p].err = Nil)
           => ~HasSession(reg, sessionID(p))
        /\ (Done(p, "IsRunning") /\ result[p].err = Nil /\ frame[p].prev = "Stop")
           => result[p].val = FALSE

StoppedThenAskedRunning ==
    /\ Done("p1", "IsRunning")
    /\ frame["p1"].prev = "Stop"
    /\ result["p1"] = [err |-> Nil, val |-> FALSE]
    /\ reg # << >>

\* C3: a Start for a polecat whose clone directory is absent returns
\* ErrPolecatNotFound in the very step that invokes it: no registry call is
\* made and the registry is unchanged, whatever opts.WorkDir is.
StartWithoutDirTouchesNothing ==
    [][\A p \in SeqProcs :
          ( /\ pc[p] = "done"
            /\ frame'[p].op = "Start"
            /\ <<frame[p], calls[p], result[p]>> # <<frame'[p], calls'[p], result'[p]>>
            /\ ~hasPolecat(frame'[p].rig, frame'[p].name) )
          => /\ pc'[p] = "done"
             /\ ErrIs(result'[p].err, ErrPolecatNotFound)
             /\ calls'[p] = <<>>
             /\ reg' = reg
             /\ dirs' = dirs]_vars

StartWithoutDirRejected ==
    /\ Done("p1", "Start")
    /\ ~hasPolecat(frame["p1"].rig, frame["p1"].name)
    /\ frame["p1"].workDir = OtherDir
    /\ result["p1"].err = ErrPolecatNotFound
    /\ calls["p1"] = <<>>
    /\ reg # << >>

\* C4: a Start that returned nil made its registry calls in the order: the
\* existence check, NewSession, SetEnvironment GT_RIG, SetEnvironment
\* GT_POLECAT, SendKeys of the launch command, and after these, only when
\* opts.Issue is set, the follow-up (its existence check and debounced send);
\* and no live session has received a launch command without holding both of
\* its identity variables.
StartSequence ==
    <<"HasSession", "NewSession", "SetEnvironment", "SetEnvironment", "SendKeys">>

StartOrdersSideEffects ==
    /\ \A p \in SeqProcs :
         (Done(p, "Start") /\ result[p].err = Nil)
         => /\ Len(calls[p]) >= 5
            /\ SubSeq(Fns(p), 1, 5) = StartSequence
            /\ \A i \in 1..Len(calls[p]) : calls[p][i].key = sessionID(p)
            /\ calls[p][3].arg = <<"GT_RIG", frame[p].rig>>
            /\ calls[p][4].arg = <<"GT_POLECAT", frame[p].name>>
            /\ calls[p][5].arg = commandOf(frame[p])
            /\ IF frame[p].issue = ""
               THEN Len(calls[p]) = 5
               ELSE \/ SubSeq(Fns(p), 6, Len(calls[p])) = <<"HasSession">>
                    \/ /\ SubSeq(Fns(p), 6, Len(calls[p]))
                            = <<"HasSession", "SendKeysDebounced">>
                       /\ calls[p][7].arg[1] = Len("Work on issue: ") + Len(frame[p].issue)
    /\ \A k \in DOMAIN reg :
         reg[k].sent > 0
         => /\ EnvOf(reg, k, "GT_RIG") # {}
            /\ EnvOf(reg, k, "GT_POLECAT") \cup EnvOf(reg, k, "GT_CREW") # {}

StartedWithFollowUp ==
    /\ Done("p1", "Start")
    /\ result["p1"].err = Nil
    /\ frame["p1"].issue # ""
    /\ Len(calls["p1"]) = 7
    /\ calls["p1"][7].fn = "SendKeysDebounced"
    /\ calls["p1"][7].ok
    /\ EnvOf(reg, sessionID("p1"), "GT_POLECAT") = {frame["p1"].name}

\* C5: a Stop whose existence check found the session live makes exactly
\* these registry calls after the check: with force, the kill alone; without
\* force, one interrupt and then the kill, whether or not the interrupt was
\* delivered.
StopAlwaysKills ==
    \A p \in SeqProcs :
        (Done(p, "Stop") /\ frame[p].live /\ calls[p][1].ok)
        => /\ Fns(p) = IF frame[p].force
                       THEN <<"HasSession", "KillSession">>
                       ELSE <<"HasSession", "SendKeysRaw", "KillSession">>
           /\ \A i \in 1..Len(calls[p]) : calls[p][i].key = sessionID(p)
           /\ result[p].err = Nil <=> calls[p][Len(calls[p])].ok
           /\ result[p].err = Nil <=> ~HasSession(reg, sessionID(p))

KilledAfterFailedInterrupt ==
    /\ Done("p1", "Stop")
    /\ ~frame["p1"].force
    /\ Len(calls["p1"]) = 3
    /\ calls["p1"][2].fn = "SendKeysRaw" /\ ~calls["p1"][2].ok
    /\ calls["p1"][3].fn = "KillSession" /\ calls["p1"][3].ok
    /\ result["p1"].err = Nil
    /\ ~HasSession(reg, sessionID("p1"))

\* C6: a List that returned nil holds exactly one entry for every live
\* session whose key starts with "gt-<rig>-" and no other entry; each entry
\* has the key as SessionID, the key without that prefix as Polecat,
\* Running true and RigName the rig; with no such session the list is empty.
ListIsPrefixFilter ==
    \A p \in SeqProcs :
        (Done(p, "List") /\ result[p].err = Nil)
        => LET infos == result[p].val
               prefix == <<"g", "t", "-">> \o frame[p].rig \o <<"-">>
               matching == {k \in DOMAIN reg :
                               /\ Len(k) >= Len(prefix)
                               /\ \A i \in 1..Len(prefix) : k[i] = prefix[i]}
           IN  /\ Len(infos) = Cardinality(matching)
               /\ \A k \in matching :
                    \E i \in 1..Len(infos) : infos[i].SessionID = k
               /\ \A i \in 1..Len(infos) :
                    /\ infos[i].SessionID \in matching
                    /\ prefix \o infos[i].Polecat = infos[i].SessionID
                    /\ infos[i].Running = TRUE
                    /\ infos[i].RigName = frame[p].rig

ListedSomeButNotAll ==
    /\ Done("p1", "List")
    /\ result["p1"].err = Nil
    /\ Len(result["p1"].val) = 1
    /\ Cardinality(DOMAIN reg) = 3

\* C7: no entry of a List that returned nil is a crew worker's session (a
\* live session that carries the crew identity variable GT_CREW): the crew
\* session gt-x-crew-a is not listed as a polecat named crew-a.
CrewNotListedAsPolecat ==
    \A p \in SeqProcs :
        (Done(p, "List") /\ result[p].err = Nil)
        => \A i \in 1..Len(result[p].val) :
              EnvOf(reg, result[p].val[i].SessionID, "GT_CREW") = {}

\* C8: two worker identities (role, rig, name) that differ in any component
\* have different session keys.
Identities ==
    {<<"polecat", rig, name>> : rig \in Rigs, name \in Names}
        \cup {<<"crew", rig, name>> : rig \in Rigs, name \in CrewNames}

identityKey(id) ==
    IF id[1] = "crew"
    THEN crewSessionName(id[2], id[3])
    ELSE sessionName(id[2], id[3])

KeysInjective ==
    \A p \in SeqProcs :
        frame[p].op \in {"Start", "runCrewAt"}
        => \A id \in Identities :
              identityKey(id) = keyOf(frame[p])
              => id = <<IF frame[p].op = "Start" THEN "polecat" ELSE "crew",
                        frame[p].rig, frame[p].name>>

\* C9: an Attach, Capture or Inject whose existence check succeeded returns
\* ErrSessionNotFound without calling its primitive when the session is not
\* live, and otherwise calls its primitive (AttachSession, CapturePane,
\* SendKeysDebounced) exactly once, on the polecat's key, and returns that
\* call's outcome.
primitiveOf(op) ==
    CASE op = "Attach" -> "AttachSession"
      [] op = "Capture" -> "CapturePane"
      [] op = "Inject" -> "SendKeysDebounced"

RequireSessionThenDelegate ==
    \A p \in SeqProcs : \A op \in {"Attach", "Capture", "Inject"} :
        (Done(p, op) /\ calls[p][1].ok)
        => IF ~frame[p].live
           THEN /\ result[p].err = ErrSessionNotFound
                /\ Fns(p) = <<"HasSession">>
           ELSE /\ Fns(p) = <<"HasSession", primitiveOf(op)>>
                /\ calls[p][2].key = sessionID(p)
                /\ result[p].err = Nil <=> calls[p][2].ok

InjectWithoutSession ==
    /\ Done("p1", "Inject")
    /\ ~frame["p1"].live
    /\ reg # << >>
    /\ calls["p1"][1].ok
    /\ result["p1"].err = ErrSessionNotFound

\* C10: every debounced send of Inject carries the delay
\* min(200 + floor(len / 1024) * 100, 1500) for the length len of its
\* message: 200 for length 0, 300 for 1024, 1200 for 10240, 1500 for 100000.
InjectDelayFormula ==
    \A p \in SeqProcs : \A i \in 1..Len(calls[p]) :
        calls[p][i].fn = "SendKeysDebounced"
        => LET len == calls[p][i].arg[1]
               delay == calls[p][i].arg[2]
           IN  /\ len = frame[p].msg
               /\ delay = Min(200 + (len \div 1024) * 100, 1500)
               /\ len = 0 => delay = 200
               /\ len = 1024 => delay = 300
               /\ len = 10240 => delay = 1200
               /\ len = 100000 => delay = 1500

InjectedHugeMessage ==
    /\ Done("p1", "Inject")
    /\ frame["p1"].msg = 100000
    /\ result["p1"].err = Nil
    /\ calls["p1"][2].fn = "SendKeysDebounced"
    /\ calls["p1"][2].arg = <<100000, 1500>>

\* C11: the delay of every debounced send lies between 200 and 1500, no
\* shorter message would get a longer delay, and no longer message a shorter
\* one.
InjectDelayMonotone ==
    \A p \in SeqProcs : \A i \in 1..Len(calls[p]) :
        calls[p][i].fn = "SendKeysDebounced"
        => LET len == calls[p][i].arg[1]
               delay == calls[p][i].arg[2]
           IN  /\ 200 <= delay /\ delay <= 1500
               /\ \A other \in MsgLens :
                    /\ other <= len => debounceMs(other) <= delay
                    /\ other >= len => debounceMs(other) >= delay

InjectedAtTheCap ==
    /\ Done("p1", "Inject")
    /\ frame["p1"].msg = 13 * 1024
    /\ Len(calls["p1"]) = 2
    /\ calls["p1"][2].ok
    /\ calls["p1"][2].arg[2] = 1500
    /\ debounceMs(12 * 1024) < 1500

\* the polecat names StopAll has to stop: the listed session names carrying the
\* rig's prefix, in the listed order, each without the prefix
StopAllTargets(p) ==
    LET pre == listPrefix(frame[p].rig)
        mine == SelectSeq(calls[p][1].arg, LAMBDA k : HasPrefix(k, pre))
    IN  [i \in 1..Len(mine) |-> TrimPrefix(mine[i], pre)]

\* the existence checks a process made, in order: one opens every Stop
CheckedKeys(p) ==
    LET hs == SelectSeq(calls[p], LAMBDA c : c.fn = "HasSession")
    IN  [i \in 1..Len(hs) |-> hs[i].key]

\* C12: a finished StopAll whose listing succeeded has attempted Stop once on
\* every listed session of the rig, in the listed order and whatever the
\* earlier attempts returned; it returns nil when no attempt failed and the
\* error of the last failing attempt otherwise.
StopAllStopsEachOnce ==
    \A p \in SeqProcs :
        (Done(p, "StopAll") /\ calls[p][1].ok)
        => LET stops == frame[p].stops
               targets == StopAllTargets(p)
               failed == {i \in 1..Len(stops) : stops[i].err # Nil}
           IN  /\ Len(stops) = Len(targets)
               /\ \A i \in 1..Len(stops) : stops[i].name = targets[i]
               /\ CheckedKeys(p) =
                    [i \in 1..Len(targets) |-> sessionName(frame[p].rig, targets[i])]
               /\ Count(p, "KillSession") <= Len(targets)
               /\ result[p].err =
                    IF failed = {} THEN Nil
                    ELSE stops[CHOOSE i \in failed : \A j \in failed : j <= i].err

StoppedAllPastTwoFailures ==
    /\ Done("p1", "StopAll")
    /\ calls["p1"][1].ok
    /\ Len(frame["p1"].stops) = 3
    /\ frame["p1"].stops[1].err = Wrap("killing session", TmuxErr)
    /\ frame["p1"].stops[2].err = Wrap("checking session", TmuxErr)
    /\ frame["p1"].stops[3].err = Nil
    /\ result["p1"].err = Wrap("checking session", TmuxErr)

----------------------------------------------------------------------------
(* Properties of the witness manager *)

\* the document process p loaded, and the document in the file
Loaded(p) == frame[p].loaded[1]
OnDisk == wfile[1]

\* the last external call of process p
LastCall(p) == calls[p][Len(calls[p])]

\* C13: a Start that loaded a running record fails with AlreadyRunning when
\* the recorded process was alive, and when that process was gone and the
\* save went through it succeeds and leaves a running record with the
\* caller's pid.
StartHonoursLiveRecord ==
    \A p \in SeqProcs :
        (/\ Done(p, "witness.Start")
         /\ frame[p].loaded # <<>>
         /\ Loaded(p).state = StateRunning)
        => /\ frame[p].probed = "live" => result[p].err = ErrAlreadyRunning
           /\ (frame[p].probed = "gone" /\ LastCall(p).ok)
              => /\ result[p].err = Nil
                 /\ wfile # <<>>
                 /\ OnDisk.state = StateRunning
                 /\ OnDisk.pid = frame[p].pid

\* C14: once a witness Start has returned success the file holds a running
\* record with the pid of the calling process, a start time, and the polecat
\* names of the Rig the call was made with.
StartPersistsRunningRecord ==
    \A p \in SeqProcs :
        (Done(p, "witness.Start") /\ result[p].err = Nil)
        => /\ wfile # <<>>
           /\ OnDisk.state = StateRunning
           /\ OnDisk.pid = frame[p].pid
           /\ OnDisk.startedAt # NoTime
           /\ OnDisk.monitored = frame[p].polecats

RestartedWithOtherPolecats ==
    /\ Done("p1", "witness.Start")
    /\ result["p1"].err = Nil
    /\ Loaded("p1").state = StateRunning
    /\ Loaded("p1").pid # frame["p1"].pid
    /\ Loaded("p1").monitored = <<NameA>>
    /\ OnDisk.monitored = <<NameA, NameCrewA>>
    /\ OnDisk.pid = frame["p1"].pid

\* the positions in the call log of process p at which it called fn
CallsOf(p, fn) == {i \in 1..Len(calls[p]) : calls[p][i].fn = fn}

\* C15: a witness Stop that loaded a record which is not running fails with
\* NotRunning and writes nothing; one that loaded a running record and whose
\* save went through succeeds and leaves a stopped record; Stop succeeds from
\* no other state.
StopOnlyFromRunning ==
    \A p \in SeqProcs :
        (Done(p, "witness.Stop") /\ frame[p].loaded # <<>>)
        => /\ Loaded(p).state # StateRunning
              => /\ result[p].err = ErrNotRunning
                 /\ CallsOf(p, "AtomicWriteJSON") = {}
                 /\ wfile = IF frame[p].found THEN <<Loaded(p)>> ELSE <<>>
           /\ (Loaded(p).state = StateRunning /\ LastCall(p).ok)
              => /\ result[p].err = Nil
                 /\ OnDisk.state = StateStopped
           /\ result[p].err = Nil => Loaded(p).state = StateRunning

StopOfStoppedRejected ==
    /\ Done("p1", "witness.Stop")
    /\ frame["p1"].found
    /\ Loaded("p1").state = StateStopped
    /\ result["p1"].err = ErrNotRunning

\* C16: every document a witness Stop hands to the save is stopped with pid
\* 0, whatever pid it loaded and whether or not its signal was delivered; once
\* Stop has returned success the file holds such a document.
StopPersistsStoppedZero ==
    \A p \in SeqProcs :
        frame[p].op = "witness.Stop"
        => /\ \A i \in CallsOf(p, "AtomicWriteJSON") :
                /\ calls[p][i].arg.state = StateStopped
                /\ calls[p][i].arg.pid = 0
           /\ (Done(p, "witness.Stop") /\ result[p].err = Nil)
              => /\ wfile # <<>>
                 /\ OnDisk.state = StateStopped
                 /\ OnDisk.pid = 0

StoppedAfterUndeliveredSignal ==
    /\ Done("p1", "witness.Stop")
    /\ result["p1"].err = Nil
    /\ Loaded("p1").pid # frame["p1"].pid
    /\ \E i \in CallsOf("p1", "Signal") : ~calls["p1"][i].ok
    /\ OnDisk.pid = 0

StatusLeavesFileAlone ==
    [][\A p \in SeqProcs :
          (pc'[p] # pc[p] /\ frame'[p].op = "witness.Status")
          => /\ wfile' = wfile
             /\ (pc'[p] = "done" /\ result'[p].err = Nil)
                => result'[p].val =
                     <<[loadState(wfile) EXCEPT !.monitored = frame[p].polecats]>>
      ]_vars

StatusShowsLiveNames ==
    /\ Done("p1", "witness.Status")
    /\ result["p1"].err = Nil
    /\ wfile = frame["p1"].loaded
    /\ OnDisk.state = StateRunning
    /\ OnDisk.monitored = <<NameA>>
    /\ result["p1"].val[1].monitored = <<NameA, NameCrewA>>

\* C19: with no state file, a Status whose read does not fail returns a
\* stopped witness with pid 0, a Stop fails with NotRunning and creates no
\* file, and a Start whose save goes through succeeds and creates the file.
AbsentFileIsStopped ==
    \A p \in SeqProcs :
        (pc[p] = "done" /\ frame[p].loaded # <<>> /\ ~frame[p].found)
        => /\ Loaded(p).state = StateStopped /\ Loaded(p).pid = 0
           /\ frame[p].op = "witness.Status"
              => /\ result[p].err = Nil
                 /\ result[p].val[1].state = StateStopped
                 /\ result[p].val[1].pid = 0
                 /\ wfile = <<>>
           /\ frame[p].op = "witness.Stop"
              => /\ result[p].err = ErrNotRunning
                 /\ wfile = <<>>
           /\ (frame[p].op = "witness.Start" /\ LastCall(p).ok)
              => /\ result[p].err = Nil
                 /\ wfile # <<>>

StartedWithoutFile ==
    /\ Done("p1", "witness.Start")
    /\ ~frame["p1"].found
    /\ result["p1"].err = Nil
    /\ wfile # <<>>
    /\ OnDisk.state = StateRunning

\* C20: whenever the state file exists its state is stopped or running, and
\* a stopped document has pid 0.
PersistedStateWellFormed ==
    wfile # <<>>
    => /\ OnDisk.state \in {StateStopped, StateRunning}
       /\ OnDisk.state = StateStopped => OnDisk.pid = 0

StoppedAfterRunning ==
    /\ wfile # <<>>
    /\ OnDisk.state = StateStopped
    /\ OnDisk.pid = 0
    /\ OnDisk.startedAt = Now
    /\ pc["p1"] = "done"

\* a document as one save of one of the two processes leaves it: the stopped
\* witness of an absent file, or pid and monitored names of the same writer
WholeDocument(d) ==
    \/ d = StoppedWitness
    \/ /\ d.startedAt = Now
       /\ \E q \in Procs :
            /\ d.monitored = OwnPolecats(q)
            /\ \/ d.state = StateRunning /\ d.pid = OwnPid(q)
               \/ d.state = StateStopped /\ d.pid = 0

\* C21: with two processes running witness Start, Stop and Status step by
\* step against one file, the file and every document a process loads are
\* whole documents of a single save, never a mix of two; the lost update
\* itself is the state LostUpdate.
LoadsSeeWholeDocuments ==
    /\ wfile # <<>> => WholeDocument(OnDisk)
    /\ \A p \in Procs : frame[p].loaded # <<>> => WholeDocument(Loaded(p))

LostUpdate ==
    /\ Done("p1", "witness.Start") /\ Done("p2", "witness.Start")
    /\ result["p1"].err = Nil /\ result["p2"].err = Nil
    /\ Loaded("p1").state = StateStopped /\ Loaded("p2").state = StateStopped
    /\ ~frame["p1"].found /\ ~frame["p2"].found
    /\ OnDisk.pid = OwnPid("p2")
    /\ OnDisk.monitored = OwnPolecats("p2")

----------------------------------------------------------------------------
(* Properties of the crew commands *)

\* the crew workspace and the session of the worker process p named
CrewDirThere(p) == crewDir(frame[p].rig, frame[p].name) \in dirs
CrewSessionLive(p) == HasSession(reg, crewSessionID(p))

\* crewMgr.Remove was called by process p and found uncommitted changes
FoundChanges(p) ==
    \E i \in CallsOf(p, "Remove") : calls[p][i].arg[2]

\* C22: a crew remove without --force of an existing worker that had a live
\* session when it was invoked, or whose workspace was found to have
\* uncommitted changes, fails and leaves the workspace in place and the
\* session as it was.
RemoveRefusesLiveOrDirty ==
    \A p \in SeqProcs :
        (/\ Done(p, "runCrewRemove")
         /\ ~frame[p].force
         /\ frame[p].hadDir
         /\ frame[p].live \/ FoundChanges(p))
        => /\ result[p].err # Nil
           /\ frame[p].live => result[p].err = ErrSessionIsRunning
           /\ (~frame[p].live /\ FoundChanges(p)) => result[p].err = ErrHasChanges
           /\ CrewDirThere(p)
           /\ CrewSessionLive(p) = frame[p].live

\* C23: a crew remove with --force of an existing worker that returned
\* success has killed the session at the worker's key and removed the
\* workspace.
ForcedRemoveKillsAndDeletes ==
    \A p \in SeqProcs :
        (/\ Done(p, "runCrewRemove")
         /\ frame[p].force
         /\ frame[p].hadDir
         /\ result[p].err = Nil)
        => /\ ~CrewDirThere(p)
           /\ ~CrewSessionLive(p)

\* C24: a crew remove of a worker whose workspace is absent fails with the
\* not-found error, with or without --force, with or without a session at
\* the worker's key.
RemoveOfAbsentIsNotFound ==
    \A p \in SeqProcs :
        (Done(p, "runCrewRemove") /\ ~frame[p].hadDir)
        => result[p].err = ErrCrewNotFound

\* the Registry and Mailbox calls of a crew refresh, for a worker that had a
\* session when it was invoked or not
RefreshSequence(p) ==
    <<"HasSession", "Append">>
        \o (IF frame[p].live THEN <<"KillSession">> ELSE <<>>)
        \o <<"NewSession", "SetEnvironment", "SetEnvironment", "SendKeys">>

\* s is the beginning of t
IsPrefix(s, t) == Len(s) <= Len(t) /\ s = SubSeq(t, 1, Len(s))

\* C25: a crew refresh of an existing worker appends at most one message and
\* makes its calls in the order append, kill of the session that was there,
\* create, environment, launch command; when it returns success it has made
\* all of them, the mailbox holds one message more than before, and the
\* session at the key is a new one holding the identity environment and the
\* launch command.
RefreshAppendsKillsRelaunches ==
    \A p \in SeqProcs :
        (frame[p].op = "runCrewRefresh" /\ frame[p].hadDir)
        => /\ Cardinality(CallsOf(p, "Append")) <= 1
           /\ mail[crewId(p)] <= frame[p].mailBefore + 1
           /\ (calls[p] # <<>> /\ calls[p][1].ok)
              => IsPrefix(SelectSeq(Fns(p), LAMBDA fn : fn # "MkdirAll"),
                          RefreshSequence(p))
           /\ (pc[p] = "done" /\ result[p].err = Nil)
              => /\ Fns(p) = RefreshSequence(p)
                 /\ mail[crewId(p)] = frame[p].mailBefore + 1
                 /\ CrewSessionLive(p)
                 /\ reg[crewSessionID(p)].sent = 1
                 /\ EnvOf(reg, crewSessionID(p), "GT_RIG") = {frame[p].rig}
                 /\ EnvOf(reg, crewSessionID(p), "GT_CREW") = {frame[p].name}

RefreshedThreeTimes ==
    /\ Done("p1", "runCrewRefresh")
    /\ result["p1"].err = Nil
    /\ frame["p1"].live
    /\ frame["p1"].prev = "new"
    /\ frame["p1"].mailBefore = 2
    /\ mail[crewId("p1")] = 3
    /\ CrewSessionLive("p1")

----------------------------------------------------------------------------
(* Properties of failures inside the session manager *)

\* process p made the call fn and it succeeded
Succeeded(p, fn) == \E i \in CallsOf(p, fn) : calls[p][i].ok

StartLeavesSessionOnSendFailure ==
    \A p \in SeqProcs :
        Done(p, "Start")
        => /\ (Succeeded(p, "NewSession") /\ LastCall(p).fn = "SendKeys"
                 /\ ~LastCall(p).ok)
              => /\ result[p].err = Wrap("sending command", TmuxErr)
                 /\ CallsOf(p, "KillSession") = {}
                 /\ HasSession(reg, sessionID(p))
                 /\ last[sessionID(p)] = "new"
           /\ (frame[p].prev = "new" /\ frame[p].live /\ calls[p] # <<>>
                 /\ calls[p][1].ok)
              => /\ result[p].err = ErrSessionRunning
                 /\ Len(calls[p]) = 1
                 /\ HasSession(reg, sessionID(p))

RetryAfterSendFailureRejected ==
    /\ Done("p1", "Start")
    /\ frame["p1"].rig = RigX /\ frame["p1"].name = NameA
    /\ frame["p1"].prev = "new"
    /\ frame["p1"].live
    /\ result["p1"].err = ErrSessionRunning
    /\ reg[sessionID("p1")].sent = 0

\* the operations and the Registry and Mailbox calls C28 speaks of
ManagerOps ==
    {"Start", "Stop", "List", "Attach", "Capture", "Inject",
     "runCrewRemove", "runCrewRefresh"}
ExternalFns ==
    {"HasSession", "NewSession", "KillSession", "SendKeys", "SendKeysRaw",
     "SendKeysDebounced", "AttachSession", "CapturePane", "ListSessions",
     "Append"}

\* the call at position i of process p is on one of the two best-effort
\* paths: the interrupt before the kill, the follow-up after the launch
BestEffort(p, i) ==
    \/ calls[p][i].fn = "SendKeysRaw"
    \/ frame[p].op = "Start" /\ frame[p].sub
         /\ \E j \in CallsOf(p, "SendKeys") : j < i

\* C28: a finished manager operation in which a Registry or Mailbox call
\* failed, outside the two best-effort paths, has returned an error that
\* wraps the failure in the name of what was attempted.
ExternalErrorsWrapped ==
    \A p \in SeqProcs :
        (/\ pc[p] = "done"
         /\ frame[p].op \in ManagerOps
         /\ \E i \in 1..Len(calls[p]) :
               /\ calls[p][i].fn \in ExternalFns
               /\ ~calls[p][i].ok
               /\ ~BestEffort(p, i))
        => /\ result[p].err # Nil
           /\ Len(result[p].err) >= 2

\* the operations C29 names, and the calls that change something outside
OnceOps ==
    {"Start", "Stop", "Inject", "witness.Start", "witness.Stop",
     "runCrewRefresh"}
MutatingFns ==
    {"NewSession", "KillSession", "SendKeys", "SendKeysRaw",
     "SendKeysDebounced", "Append", "Signal", "AtomicWriteJSON"}

\* C29: within one invocation of Start, Stop, Inject, witness Start, witness
\* Stop or crew refresh, every call that creates, kills, sends, appends or
\* saves is made at most once, and no call is made again after it failed.
NoCallRetried ==
    \A p \in SeqProcs :
        frame[p].op \in OnceOps
        => /\ \A fn \in MutatingFns : Count(p, fn) <= 1
           /\ \A i \in 1..Len(calls[p]) : \A j \in 1..Len(calls[p]) :
                (i < j /\ ~calls[p][i].ok) => calls[p][j].fn # calls[p][i].fn

RefreshGaveUpAfterFailedCreate ==
    /\ Done("p1", "runCrewRefresh")
    /\ Succeeded("p1", "KillSession")
    /\ LastCall("p1").fn = "NewSession"
    /\ ~LastCall("p1").ok
    /\ result["p1"].err = Wrap("creating session", TmuxErr)
    /\ ~CrewSessionLive("p1")

\* the Registry calls of a crew at that finds no session
AtSequence ==
    <<"HasSession", "NewSession", "SetEnvironment", "SetEnvironment",
      "SendKeys", "AttachSession">>

\* C30: crew at creates a session only when none was at the worker's key,
\* and then sets the environment and sends the launch command before it
\* attaches; when a session was there it only checks and attaches; it never
\* kills, never creates twice, and with --no-tmux calls nothing and returns
\* the workspace path.
AtCreatesOnlyWhenAbsent ==
    \A p \in SeqProcs :
        frame[p].op = "runCrewAt"
        => /\ Count(p, "NewSession") <= 1
           /\ Count(p, "KillSession") = 0
           /\ Succeeded(p, "NewSession") => ~frame[p].live
           /\ frame[p].noTmux
              => /\ calls[p] = <<>>
                 /\ result[p].err = Nil => result[p].val = crewDir(frame[p].rig, frame[p].name)
           /\ (calls[p] # <<>> /\ calls[p][1].ok)
              => IF frame[p].live
                 THEN IsPrefix(Fns(p), <<"HasSession", "AttachSession">>)
                 ELSE IsPrefix(Fns(p), AtSequence)
           /\ (pc[p] = "done" /\ result[p].err = Nil /\ ~frame[p].noTmux)
              => /\ CrewSessionLive(p)
                 /\ Fns(p) = IF frame[p].live
                             THEN <<"HasSession", "AttachSession">>
                             ELSE AtSequence

AttachedToExistingSession ==
    /\ Done("p1", "runCrewAt")
    /\ result["p1"].err = Nil
    /\ frame["p1"].live
    /\ frame["p1"].prev = "new"
    /\ Fns("p1") = <<"HasSession", "AttachSession">>
    /\ reg[crewSessionID("p1")].sent = 1

----------------------------------------------------------------------------
(* Further properties of the witness manager *)

WitnessWrites == {"witness.Start", "witness.Stop"}

\* C31: a step by which a witness Start returns AlreadyRunning or a witness
\* Stop returns NotRunning leaves the state file as it is, absent or not, and
\* ends an invocation that never called the save; the file changes only in
\* the step by which a Start or a Stop returns success.
RejectedTransitionWritesNothing ==
    [][/\ \A p \in SeqProcs :
            (/\ pc[p] # "done" /\ pc'[p] = "done"
             /\ result'[p].err \in {ErrAlreadyRunning, ErrNotRunning})
            => /\ wfile' = wfile
               /\ \A i \in 1..Len(calls'[p]) :
                    calls'[p][i].fn # "AtomicWriteJSON"
       /\ wfile' # wfile
            => \E p \in SeqProcs :
                 /\ frame[p].op \in WitnessWrites
                 /\ pc[p] = "saveState" /\ pc'[p] = "done"
                 /\ result'[p].err = Nil
      ]_vars

StopWithoutFileRejected ==
    /\ Done("p1", "witness.Stop")
    /\ ~frame["p1"].found
    /\ frame["p1"].loaded # <<>>
    /\ result["p1"].err = ErrNotRunning
    /\ wfile = <<>>

\* C32: a witness Start that loaded a Running record whose pid is zero or
\* negative did not ask whether that process exists and does not return
\* AlreadyRunning; and the probe answers with a boolean for every pid, zero
\* and negative included, the answer being false for a pid with no process.
StartIgnoresPidlessRecord ==
    /\ \A p \in SeqProcs :
        (/\ frame[p].op = "witness.Start"
         /\ frame[p].loaded # <<>>
         /\ frame[p].loaded[1].state = StateRunning
         /\ frame[p].loaded[1].pid <= 0)
        => /\ frame[p].probed = "none"
           /\ result[p].err # ErrAlreadyRunning
    /\ \A pid \in MinPid..MaxPid :
        /\ ProcessExists(pid) \in BOOLEAN
        /\ pid \notin alive => ~ProcessExists(pid)

StartedOverPidlessRecord ==
    /\ Done("p1", "witness.Start")
    /\ frame["p1"].loaded # <<>>
    /\ frame["p1"].loaded[1].state = StateRunning
    /\ frame["p1"].loaded[1].pid < 0
    /\ result["p1"].err = Nil
    /\ wfile # <<>>
    /\ wfile[1].pid = frame["p1"].pid

----------------------------------------------------------------------------
(* Further properties of the crew commands *)

AppendFailed == Wrap("sending handoff mail", MailErr)

\* C33: the step by which crew refresh returns the error of a failed Append
\* leaves the Registry and the mailbox as they are and ends an invocation
\* that called neither KillSession nor NewSession, so the session found at
\* entry is still there and none was created; the steps of the refresh that
\* come before the Append leave the Registry alone as well.
RefreshAppendFailureLeavesRegistry ==
    [][\A p \in SeqProcs :
        /\ (/\ frame'[p].op = "runCrewRefresh"
            /\ pc'[p] \in {"runCrewRefresh_HasSession", "runCrewRefresh_Append"})
           => reg' = reg
        /\ (/\ pc[p] = "runCrewRefresh_Append" /\ pc'[p] = "done"
            /\ result'[p].err = AppendFailed)
           => /\ reg' = reg
              /\ mail' = mail
              /\ HasSession(reg', keyOf(frame[p])) = frame[p].live
              /\ \A i \in 1..Len(calls'[p]) :
                   calls'[p][i].fn \notin {"KillSession", "NewSession",
                                           "SetEnvironment", "SendKeys"}
      ]_vars

RefreshGaveUpWithSessionLive ==
    /\ Done("p1", "runCrewRefresh")
    /\ result["p1"].err = AppendFailed
    /\ frame["p1"].live
    /\ frame["p1"].hasSession
    /\ HasSession(reg, keyOf(frame["p1"]))

----------------------------------------------------------------------------
(* Properties of concurrent calls *)

\* the calls of primitive fn that process p made and that succeeded
OkCalls(p, fn) ==
    {i \in 1..Len(calls[p]) : calls[p][i].fn = fn /\ calls[p][i].ok}

\* the callers whose Start has returned success
StartWinners == {p \in Procs : Done(p, "Start") /\ result[p].err = Nil}

\* the callers whose Start created the session
StartCreators == {p \in Procs : OkCalls(p, "NewSession") # {}}

\* C34: of two Start calls for the same polecat that run at the same time, at
\* most one returns success and at most one creates the session; only a
\* caller that created the session sends it the launch command, once; so the
\* session holds at most one launch command, in every interleaving.
ConcurrentStartsOneWinner ==
    /\ Cardinality(StartWinners) <= 1
    /\ Cardinality(StartCreators) <= 1
    /\ StartWinners \subseteq StartCreators
    /\ \A p \in Procs :
        /\ Cardinality(OkCalls(p, "NewSession")) <= 1
        /\ Cardinality(OkCalls(p, "SendKeys")) <= 1
        /\ OkCalls(p, "SendKeys") # {} => p \in StartCreators
    /\ \A k \in DOMAIN reg : k = sessionName(RigX, NameA) /\ reg[k].sent <= 1

StartLostTheRace ==
    /\ Done("p1", "Start") /\ Done("p2", "Start")
    /\ result["p1"].err = Nil
    /\ Succeeded("p2", "HasSession")
    /\ result["p2"].err = Wrap("creating session", TmuxErr)
    /\ reg[sessionName(RigX, NameA)].sent = 1

\* C35: a StopAll for rig R removes from the Registry only sessions of R's
\* polecats: no session that carries the crew identity variable GT_CREW, and
\* no session whose GT_RIG names another rig.
StopAllKillsOwnPolecatsOnly ==
    [][\A p \in SeqProcs :
        frame[p].op = "StopAll"
        => \A k \in DOMAIN reg \ DOMAIN reg' :
              /\ EnvOf(reg, k, "GT_CREW") = {}
              /\ EnvOf(reg, k, "GT_RIG") = {frame[p].rig}
      ]_vars

\* C36: a crew remove without --force calls KillSession at no point, whatever
\* another process does to the worker's session in the meantime.
UnforcedRemoveNeverKills ==
    \A p \in Procs :
        (frame[p].op = "runCrewRemove" /\ ~frame[p].force)
        => Count(p, "KillSession") = 0

----------------------------------------------------------------------------
(* Listing against the existence check *)

\* the names a caller may ask about for some rig: the polecat names and every
\* name a listing can report
WorkerNames ==
    Names \cup {TrimPrefix(k, listPrefix(rig)) : k \in Keys, rig \in Rigs}

\* C37: IsRunning answers with the liveness of the key computed from the
\* name; and for every entry of a List that returned nil, the key computed
\* from the entry's name is the entry's session key and that session is live
\* (IsRunning of the name is true), while every name whose computed key is
\* live (IsRunning true) is the name of exactly one entry.
ListAgreesWithIsRunning ==
    \A p \in SeqProcs :
        /\ (Done(p, "IsRunning") /\ result[p].err = Nil)
           => result[p].val = HasSession(reg, sessionName(frame[p].rig,
                                                          frame[p].name))
        /\ (Done(p, "List") /\ result[p].err = Nil)
           => LET infos == result[p].val
                  rig == frame[p].rig
              IN  /\ \A i \in 1..Len(infos) :
                        /\ sessionName(rig, infos[i].Polecat) = infos[i].SessionID
                        /\ HasSession(reg, sessionName(rig, infos[i].Polecat))
                  /\ \A name \in WorkerNames :
                        HasSession(reg, sessionName(rig, name))
                        => Cardinality({i \in 1..Len(infos) :
                                           infos[i].Polecat = name}) = 1

ListedThreeRunning ==
    /\ Done("p1", "List")
    /\ result["p1"].err = Nil
    /\ frame["p1"].rig = RigX
    /\ Len(result["p1"].val) >= 3
    /\ \E i \in 1..Len(result["p1"].val) :
          result["p1"].val[i].SessionID = sessionName(RigXY, NameA)

----------------------------------------------------------------------------
(* Properties of the activity feed *)

\* the events in s are events of the first n lines of the output, each of
\* its own line, in the order of the lines
InLineOrder(s, lines, n) ==
    \A i \in 1..Len(s) :
        /\ s[i].Raw \in 1..n
        /\ s[i] = parseBdActivityLine(lines[s[i].Raw])
        /\ i > 1 => s[i - 1].Raw < s[i].Raw

\* C38: the reader of the activity source is never kept waiting by the
\* consumer: with an event in hand its send step can be taken whatever the
\* channel holds; an event was dropped only when the channel held 100; what
\* the consumer received, followed by what the channel holds, is the events
\* of the scanned lines in their order with some left out; the channel is
\* closed at most once, only after the input ended, and nothing was sent
\* after the close.
ReaderNeverWaitsForConsumer ==
    /\ bd.pc = "offer" => ENABLED bdReader_Offer
    /\ \A d \in bd.dropped : d.held = EventsCap
    /\ InLineOrder(bd.received \o bd.events, bd.stdout, bd.scanned)
    /\ bd.closes <= 1
    /\ bd.closes = 1 => /\ bd.pc = "returned"
                        /\ bd.scanned = Len(bd.stdout) \/ bd.cancelled
    /\ bd.pc = "returned" => bd.closes = 1
    /\ bd.lateSends = 0

DroppedOnFullThenClosed ==
    /\ bd.closes = 1
    /\ bd.dropped # {}
    /\ Len(bd.received) > EventsCap
    /\ bd.events = <<>>

\* the safety half of C39
JSONLTailSafe ==
    /\ jsonl.closes <= 1
    /\ jsonl.pc = "returned" <=> jsonl.closes = 1
    /\ jsonl.lateSends = 0
    /\ \A i \in 1..Len(jsonl.received \o jsonl.events) :
        LET event == (jsonl.received \o jsonl.events)[i] IN
        /\ event.Raw \in (jsonl.atOpen + 1)..Len(jsonl.file)
        /\ event = parseJSONLLine(jsonl.file[event.Raw])

\* C39: once Close has been called on a JSONL source its tail goroutine
\* eventually returns, and has then closed the events channel exactly once;
\* at all times the channel was closed at most once, by the return of the
\* goroutine, nothing was sent after the close, and every event emitted is
\* the event of a line that was appended after the source was opened.
JSONLCloseEndsTail ==
    /\ []JSONLTailSafe
    /\ jsonl.cancelled ~> (jsonl.pc = "returned" /\ jsonl.closes = 1)

JSONLClosedAfterEmitting ==
    /\ jsonl.cancelled
    /\ jsonl.pc = "returned"
    /\ jsonl.closes = 1
    /\ jsonl.atOpen > 0
    /\ jsonl.received # <<>>
====
